---- MODULE Spec2Model ----
(***************************************************************************)
(* Docking-box estimation of kattens/AutodockScript.                       *)
(*                                                                         *)
(* Numbers are exact fixed-point values: one unit is 0.0001, so 3.0 is     *)
(* 30000 and the three-decimal rounding of the code (round(x, 3)) is the   *)
(* rounding to a multiple of 10 units.  A mean is kept as an exact         *)
(* fraction, sum over count.                                               *)
(***************************************************************************)
EXTENDS Integers, Sequences, FiniteSets, TLC

\* ------------------------------------------------------------------ bounds
\* Longest coordinate column of a contact CSV handed to process_csv; a column
\* made of the four corner points alone may be one row longer.
MaxRows == 3
\* Number of receptors of a run of main, each present in PDB_DIR under its
\* plain name and under its _malaria name.
NumReceptors == 2
\* Longest receptor file, in records, handed to parse_pdbqt_het_groups.
MaxRecords == 4
\* Longest receptor file, in records, a docking box is built for.
MaxLines == 3
\* Number of ligand/receptor pairs matched by stem in a run of script_run.py.
NumPairs == 2
\* Longest list of records, well-formed and malformed mixed, handed to each of
\* the three parsers.
MaxMixed == 2
\* Number of build_box_for_receptor calls under way at once.
NumWorkers == 2

\* ------------------------------------------------- Build_center_receptor.py
PAD == 30000
MIN_SIZE == 160000

VARIABLES
    csvFile,      \* the contact CSV process_csv is called on
    forceCube,    \* FORCE_CUBE of the config block
    returned,     \* what the process_csv calls made so far returned, in call order
    second,       \* the file the second call was made on, as a change of csvFile
    csvDir,       \* CSV_DIR: the file under each '<stem>.csv'
    pc,           \* where main is: "loop", "write" or "done"
    next,         \* index into the sorted PDB stems of the one main handles next
    results,      \* the dict results of main
    outputJson,   \* Center_boxes.json: absent, or the JSON object it holds
    recLines,     \* the records of the receptor PDBQT a site box is computed for
    targetResn,   \* lig_resname handed to compute_site_box_from_receptor
    groups,       \* what parse_pdbqt_het_groups returned, in insertion order
    picked,       \* what pick_ligand_group returned or raised
    sitePc,       \* "start", "parsed" or "picked"
    BINDING_CENTERS,  \* the dict of that name of a docking script
    dockPc,       \* where a docking script is: "import", then "ready"
    recStem,      \* the stem of the receptor PDBQT a box is built for
    recKind,      \* that file: "text", "missing" or "unreadable"
    built,        \* what the build_box_for_receptor calls returned or raised
    siteBox,      \* what compute_site_box_from_receptor returned or raised
    protFiles,    \* prot_folder: the receptor PDBQT under each stem
    runPc,        \* where the main loop of script_run.py is: "loop", "done", "aborted"
    runNext,      \* index into common of the stem the loop handles next
    outDir,       \* output_folder: the names of the .pdbqt files in it
    csvOut,       \* csv_folder: the names of the .csv files in it
    logDir,       \* log_folder: what each .log file in it holds
    stuckLog,     \* stuck_timeouts.txt: its lines, in order
    counters,     \* processed, errors and timeouts of the main loop
    vinaCalls,    \* the runs of the docking engine so far: stem, box and how each ended
    workers,      \* the build_box_for_receptor calls under way at once, one per receptor
    acc,          \* xs, ys, zs of each of these calls, as one list of points
    pairs,        \* the list pairs of run_from_csv: the valid rows of Data.csv
    loopPc,       \* where run_from_csv is: "loop" or "summary"
    pairNext,     \* index into pairs of the pair the loop handles next
    runNo,        \* which run of autodock_script.py this is
    failed,       \* the list failed of run_from_csv
    success,      \* the counter success
    skipped,      \* the counter skipped
    csvFolder,    \* top10_affinities: the affinities in each '<pair_stem>.csv'
    logFolder,    \* docking_logs: what each '<pair_stem>.log' holds
    engineRuns,   \* the runs of the docking engine over all runs of the script
    outcomes,     \* how each pair of each run left the loop body
    logFile,      \* the engine log handed to the parse_affinities of each script
    parsed,       \* what the parse_affinities of each script returned for it
    parseTurn,    \* index of the script whose parse_affinities is called next
    hasAdt,       \* what has_adt() of convert_proteins.py returns
    obabelThere,  \* whether an obabel executable is on the PATH
    inputs,       \* os.listdir(input_folder), in the order of the loop
    convPc,       \* where convert_proteins.py is: "loop", "report", "done", "crashed"
    convNext,     \* index into inputs of the file the loop handles next
    finalFiles,   \* malaria_pdbqt: what each final '<stem>.pdbqt' holds
    failedNames,  \* the list failed of convert_proteins.py
    toolRuns,     \* the converter runs so far: input, tool, how it ended
    destDir,      \* dst_dir of safe_copy: the files in it, name and content
    copyPc,       \* where safe_copy is: "idle" or "probing"
    copySrc,      \* src of the safe_copy call under way
    copyI,        \* i of its while loop
    copies        \* the safe_copy calls that returned: src and the name given

boxVars == <<csvFile, forceCube, returned, second>>
mainVars == <<csvDir, pc, next, results, outputJson>>
siteVars == <<recLines, targetResn, groups, picked, sitePc>>
buildVars == <<BINDING_CENTERS, dockPc, recStem, recKind, built, siteBox>>
runVars == <<protFiles, runPc, runNext, outDir, csvOut, logDir, stuckLog, counters, vinaCalls>>
concVars == <<workers, acc>>
fromCsvVars == <<pairs, loopPc, pairNext, runNo, failed, success, skipped, csvFolder,
                 logFolder, engineRuns, outcomes>>
affVars == <<logFile, parsed, parseTurn>>
convVars == <<hasAdt, obabelThere, inputs, convPc, convNext, finalFiles, failedNames, toolRuns>>
copyVars == <<destDir, copyPc, copySrc, copyI, copies>>
toolVars == <<fromCsvVars, affVars, convVars, copyVars>>
dockVars == <<buildVars, runVars, concVars, toolVars>>
vars == <<csvFile, forceCube, returned, second, csvDir, pc, next, results, outputJson,
          recLines, targetResn, groups, picked, sitePc, dockVars>>

\* One field of 'x, y, z' as text: a float literal, or text float() rejects.
Num(v) == [ok |-> TRUE, v |-> v]
Junk == [ok |-> FALSE, v |-> 0]

\* A cell of the coordinate column as pandas hands it over: NaN for a missing
\* cell, else a string with an optional opening and closing bracket around
\* comma-separated fields.
NaNCell == [kind |-> "nan", open |-> "", close |-> "", parts |-> <<>>]
StrCell(o, c, p) == [kind |-> "str", open |-> o, close |-> c, parts |-> p]

CellP0 == StrCell("(", ")", <<Num(0), Num(0), Num(0)>>)            \* "(0, 0, 0)"
CellPX == StrCell("(", ")", <<Num(100000), Num(0), Num(0)>>)       \* "(10, 0, 0)"
CellPY == StrCell("(", ")", <<Num(0), Num(100000), Num(0)>>)       \* "(0, 10, 0)"
CellPZ == StrCell("(", ")", <<Num(0), Num(0), Num(100000)>>)       \* "(0, 0, 10)"
CellP5 == StrCell("[", "]", <<Num(50000), Num(50000), Num(50000)>>) \* "[5, 5, 5]"
CellNear == StrCell("", "", <<Num(4), Num(0), Num(0)>>)            \* "0.0004, 0, 0"
CellFar == StrCell("(", ")", <<Num(-120004), Num(0), Num(0)>>)     \* "(-12.0004, 0, 0)"
CellTwo == StrCell("(", ")", <<Num(10000), Num(20000)>>)           \* "(1, 2)"
CellMismatch == StrCell("(", "]", <<Num(50000), Num(50000), Num(50000)>>) \* "(5, 5, 5]"
CellWord == StrCell("(", ")", <<Junk, Num(0), Num(0)>>)            \* "(x, 0, 0)"

NumCell == [kind |-> "num", open |-> "", close |-> "", parts |-> <<>>] \* a bare float

\* the cells of the longer columns, and those of the one-row columns
CornerCells == {CellP0, CellPX, CellPY, CellPZ}
Cells == CornerCells \cup {CellNear, CellFar, CellMismatch}
AllCells == Cells \cup {CellP5, NaNCell, NumCell, CellTwo, CellWord}

\* Result of parse_coord: the triple, or the ValueError it raises.
ParseError == [ok |-> FALSE, xyz |-> <<0, 0, 0>>]
Parsed(x, y, z) == [ok |-> TRUE, xyz |-> <<x, y, z>>]

parse_coord(val) ==
    IF val.kind # "str" THEN ParseError
    ELSE LET stripped == \/ (val.open = "(" /\ val.close = ")")
                         \/ (val.open = "[" /\ val.close = "]")
             n == Len(val.parts)
             \* a bracket that was not stripped stays glued to its field
             floatOk(i) == /\ val.parts[i].ok
                           /\ stripped \/ ((i = 1 => val.open = "") /\ (i = n => val.close = ""))
         IN IF n # 3 THEN ParseError
            ELSE IF \A i \in 1..3 : floatOk(i)
                 THEN Parsed(val.parts[1].v, val.parts[2].v, val.parts[3].v)
                 ELSE ParseError

\* ExtractCoords gone wrong: the loop breaks at the first row that does not parse.
RECURSIVE ExtractUntilBad(_)
ExtractUntilBad(rows) ==
    IF rows = <<>> THEN <<>>
    ELSE LET p == parse_coord(Head(rows))
         IN IF p.ok THEN <<p.xyz>> \o ExtractUntilBad(Tail(rows)) ELSE <<>>

\* coords of process_csv: the rows that parse, in row order.
RECURSIVE ExtractCoords(_)
ExtractCoords(rows) ==
    IF rows = <<>> THEN <<>>
    ELSE LET p == parse_coord(Head(rows))
         IN IF p.ok THEN <<p.xyz>> \o ExtractCoords(Tail(rows))
            ELSE ExtractCoords(Tail(rows))

\* round(x, 3): to the nearest multiple of 10 units, a tie to the even one.
Round3(v) ==
    LET r == v % 10
        lo == v - r
    IN IF r < 5 THEN lo
       ELSE IF r > 5 THEN lo + 10
       ELSE IF (lo \div 10) % 2 = 0 THEN lo ELSE lo + 10

RoundPoint(p) == <<Round3(p[1]), Round3(p[2]), Round3(p[3])>>

SeqRange(s) == {s[i] : i \in 1..Len(s)}

\* Dedup gone wrong: the duplicates removed before rounding and not after.
RECURSIVE DedupExact(_)
DedupExact(coords) ==
    IF coords = <<>> THEN <<>>
    ELSE LET rest == DedupExact(Tail(coords))
         IN IF RoundPoint(Head(coords)) \in SeqRange(rest)
               /\ Head(coords) \in SeqRange(Tail(coords))
            THEN rest ELSE <<RoundPoint(Head(coords))>> \o rest

\* Dedup gone wrong: a list comprehension in place of the set comprehension.
DedupKeepAll(coords) == [i \in 1..Len(coords) |-> RoundPoint(coords[i])]

\* Dedup gone wrong: only a run of equal neighbours collapses.
RECURSIVE DedupAdjacent(_)
DedupAdjacent(coords) ==
    IF coords = <<>> THEN <<>>
    ELSE LET rest == DedupAdjacent(Tail(coords))
             p == RoundPoint(Head(coords))
         IN IF rest # <<>> /\ Head(rest) = p THEN rest ELSE <<p>> \o rest

\* list({(round(x,3), round(y,3), round(z,3)) for ...}): each distinct rounded
\* point once.
RECURSIVE Dedup(_)
Dedup(coords) ==
    IF coords = <<>> THEN <<>>
    ELSE LET rest == Dedup(Tail(coords))
             p == RoundPoint(Head(coords))
         IN IF p \in SeqRange(rest) THEN rest ELSE <<p>> \o rest

RECURSIVE SumAxis(_, _)
SumAxis(arr, a) == IF arr = <<>> THEN 0 ELSE Head(arr)[a] + SumAxis(Tail(arr), a)

RECURSIVE MinAxis(_, _)
MinAxis(arr, a) ==
    IF Len(arr) = 1 THEN arr[1][a]
    ELSE LET m == MinAxis(Tail(arr), a)
         IN IF Head(arr)[a] < m THEN Head(arr)[a] ELSE m

RECURSIVE MaxAxis(_, _)
MaxAxis(arr, a) ==
    IF Len(arr) = 1 THEN arr[1][a]
    ELSE LET m == MaxAxis(Tail(arr), a)
         IN IF Head(arr)[a] > m THEN Head(arr)[a] ELSE m

Max2(a, b) == IF a >= b THEN a ELSE b
Max3(t) == Max2(t[1], Max2(t[2], t[3]))

\* MeanOf gone wrong: the middle of the bounding box.
MeanAsMidpoint(arr) ==
    [num |-> [a \in 1..3 |-> MinAxis(arr, a) + MaxAxis(arr, a)], den |-> 2]

\* arr.mean(axis=0), as the exact fraction num / den on every axis.
MeanOf(arr) == [num |-> [a \in 1..3 |-> SumAxis(arr, a)], den |-> Len(arr)]

\* RawSize gone wrong: the padding added on one side only.
RawSizeOnePad(arr) == [a \in 1..3 |-> (MaxAxis(arr, a) - MinAxis(arr, a)) + PAD]

\* size = (maxc - minc) + 2 * PAD
RawSize(arr) == [a \in 1..3 |-> (MaxAxis(arr, a) - MinAxis(arr, a)) + 2 * PAD]

\* ClampSize gone wrong: np.minimum.
ClampSizeMin(size) == [a \in 1..3 |-> IF size[a] <= MIN_SIZE THEN size[a] ELSE MIN_SIZE]

\* size = np.maximum(size, MIN_SIZE)
ClampSize(size) == [a \in 1..3 |-> Max2(size[a], MIN_SIZE)]

\* CubeSize gone wrong: the cube step left out.
CubeSizeOff(size, cube) == size

\* if FORCE_CUBE: m = size.max(); size = [m, m, m]
CubeSize(size, cube) == IF cube THEN [a \in 1..3 |-> Max3(size)] ELSE size

\* A contact CSV on disk.
MissingFile == [kind |-> "missing", col |-> "", rows |-> <<>>]
ZeroByteFile == [kind |-> "zero", col |-> "", rows |-> <<>>]
NoColumnsFile == [kind |-> "nodata", col |-> "", rows |-> <<>>]
Table(col, rows) == [kind |-> "table", col |-> col, rows |-> rows]

CoordColumns == {"prot_coord", "protein_coord"}

\* process_csv returns None, or the dict center / size / n_points.
None == [ok |-> FALSE, center |-> [num |-> <<0, 0, 0>>, den |-> 1],
         size |-> <<0, 0, 0>>, n_points |-> 0]
Box(center, size, n) == [ok |-> TRUE, center |-> center, size |-> size, n_points |-> n]

process_csv(file, cube) ==
    IF file.kind # "table" THEN None
    ELSE IF file.col \notin CoordColumns THEN None
    ELSE LET coords == ExtractCoords(file.rows)
         IN IF coords = <<>> THEN None
            ELSE LET arr == Dedup(coords)
                 IN Box(MeanOf(arr), CubeSize(ClampSize(RawSize(arr)), cube), Len(arr))

\* ---------------------------------------------------------- autodock_script.py
EXCLUDE_RESN ==
    {"HOH", "WAT", "DOD", "TP3", "H2O",
     "NA", "K", "CL", "CA", "MG", "MN", "ZN", "FE", "CU", "CD", "NI",
     "SO4", "PO4", "NO3", "CO3", "IOD", "BR", "I", "F",
     "GOL", "PG4", "PEG", "EDO", "MPD", "BME", "TLA",
     "NAG", "NDG", "MAN", "BMA", "GAL", "FUC", "GLC", "GLO", "SUC", "HEM", "HEC", "NAP"}

\* str.strip() and str.upper() on the texts of the model
Strip(t) ==
    CASE t = " lig " -> "lig"
      [] t = " NA" -> "NA"
      [] t = "  " -> ""
      [] t = " CA " -> "CA"
      [] t = " HN " -> "HN"
      [] t = "HG  " -> "HG"
      [] t = "1HB " -> "1HB"
      [] OTHER -> t

Upper(t) ==
    CASE t = "lig" -> "LIG"
      [] t = " lig " -> " LIG "
      [] OTHER -> t

\* One record of a receptor PDBQT: the record name of columns 1-6, the text of
\* the atom-name, residue-name, chain and residue-number columns, and the
\* coordinate columns, which float() takes or rejects.
Record(rec, name, resn, chain, resi, ok, xyz) ==
    [rec |-> rec, name |-> name, resn |-> resn, chain |-> chain, resi |-> resi,
     ok |-> ok, xyz |-> xyz]

RecLigA1 == Record("HETATM", "C1", "LIG", "A", "1", TRUE, <<0, 0, 0>>)
RecLigA2 == Record("HETATM", "C2", "LIG", "A", "1", TRUE, <<100000, 0, 0>>)
RecLigB == Record("HETATM", "O1", "lig", "B", "2", TRUE, <<50000, 50000, 50000>>)
RecHoh == Record("HETATM", "O", "HOH", "A", "3", TRUE, <<0, 100000, 0>>)
RecNa == Record("HETATM", "NA", " NA", "A", "4", TRUE, <<0, 0, 100000>>)
RecLigBad == Record("HETATM", "C1", "LIG", "A", "1", FALSE, <<0, 0, 0>>)
RecAtom == Record("ATOM", " CA ", "ALA", "A", "6", TRUE, <<10000, 10000, 10000>>)

Records == {RecLigA1, RecLigA2, RecLigB, RecHoh, RecNa, RecLigBad, RecAtom}

\* key = (resn, chain, resi) of a record
KeyOf(line) == <<Upper(Strip(line.resn)), line.chain, line.resi>>

\* groups[key].append((x, y, z)): a new key goes last
AppendAtom(grps, key, xyz) ==
    IF \E g \in 1..Len(grps) : grps[g].key = key
    THEN [g \in 1..Len(grps) |->
             IF grps[g].key = key THEN [grps[g] EXCEPT !.pts = Append(@, xyz)] ELSE grps[g]]
    ELSE Append(grps, [key |-> key, pts |-> <<xyz>>])

RECURSIVE ParseFrom(_, _)
ParseFrom(lines, grps) ==
    IF lines = <<>> THEN grps
    ELSE LET line == Head(lines)
         IN IF line.rec # "HETATM" THEN ParseFrom(Tail(lines), grps)
            ELSE IF ~line.ok THEN ParseFrom(Tail(lines), grps)
            ELSE ParseFrom(Tail(lines), AppendAtom(grps, KeyOf(line), line.xyz))

parse_pdbqt_het_groups(lines) == ParseFrom(lines, <<>>)

\* FirstLargest gone wrong: a later item of the same length replaces the best.
RECURSIVE LastLargest(_)
LastLargest(items) ==
    IF Len(items) = 1 THEN items[1]
    ELSE LET best == LastLargest(SubSeq(items, 1, Len(items) - 1))
             last == items[Len(items)]
         IN IF Len(last.pts) >= Len(best.pts) THEN last ELSE best

\* max(items, key=lambda kv: len(kv[1])): the first of the longest
RECURSIVE FirstLargest(_)
FirstLargest(items) ==
    IF Len(items) = 1 THEN items[1]
    ELSE LET best == FirstLargest(SubSeq(items, 1, Len(items) - 1))
             last == items[Len(items)]
         IN IF Len(last.pts) > Len(best.pts) THEN last ELSE best

\* target_resn of a call: None, or a text
NoTarget == [none |-> TRUE, text |-> ""]
Target(t) == [none |-> FALSE, text |-> t]
Truthy(t) == ~t.none /\ t.text # ""

\* NormalizeTarget gone wrong: the upper() left out.
NormalizeNoUpper(t) == IF Truthy(t) THEN Target(Strip(t.text)) ELSE t

\* if target_resn: target_resn = str(target_resn).strip().upper()
NormalizeTarget(t) == IF Truthy(t) THEN Target(Upper(Strip(t.text))) ELSE t

\* Filtered gone wrong: nothing is filtered out.
FilteredNothing(grps) == grps

\* filtered = [(k, v) for k, v in groups.items() if k[0] not in EXCLUDE_RESN]
Filtered(grps) == LET Keep(g) == g.key[1] \notin EXCLUDE_RESN IN SelectSeq(grps, Keep)

\* what pick_ligand_group returns, or the ValueError it raises
NotPicked == [status |-> "none", key |-> <<"", "", "">>, n |-> 0,
              center |-> [num |-> <<0, 0, 0>>, den |-> 1]]
Raised(why) == [NotPicked EXCEPT !.status = why]
Chosen(g) == [status |-> "ok", key |-> g.key, n |-> Len(g.pts), center |-> MeanOf(g.pts)]

pick_ligand_group(grps, target_resn) ==
    IF grps = <<>> THEN Raised("ValueError: no groups")
    ELSE LET target == NormalizeTarget(target_resn)
         IN IF Truthy(target)
            THEN LET Match(g) == g.key[1] = target.text
                     candidates == SelectSeq(grps, Match)
                 IN IF candidates = <<>> THEN Raised("ValueError: not found")
                    ELSE Chosen(FirstLargest(candidates))
            ELSE LET filtered == Filtered(grps)
                 IN IF filtered = <<>> THEN Chosen(FirstLargest(grps))
                    ELSE Chosen(FirstLargest(filtered))

Targets == {NoTarget, Target(""), Target("  "), Target("LIG"), Target(" lig "),
            Target("HOH"), Target("XYZ")}

SiteIdle ==
    /\ recLines = <<>>
    /\ targetResn = NoTarget
    /\ groups = <<>>
    /\ picked = NotPicked
    /\ sitePc = "idle"

\* FIXED_EDGE: the edge of the cube around the ligand, 25.0
FIXED_EDGE == 250000

\* what compute_site_box_from_receptor returns (center, size, key, n), or the
\* exception that leaves it
NoSiteBox == [status |-> "none", center |-> [num |-> <<0, 0, 0>>, den |-> 1],
              size |-> <<0, 0, 0>>, key |-> <<"", "", "">>, n |-> 0]
SiteBoxRaised(why) == [NoSiteBox EXCEPT !.status = why]

\* compute_site_box_from_receptor gone wrong: when no group can be selected
\* the box is put at the origin, nothing being raised.
compute_site_box_with_fallback(kind, lines, lig_resname, fixed_edge) ==
    IF kind = "missing" THEN SiteBoxRaised("FileNotFoundError")
    ELSE IF kind = "unreadable" THEN SiteBoxRaised("OSError")
    ELSE LET p == pick_ligand_group(parse_pdbqt_het_groups(lines), lig_resname)
         IN [status |-> "ok", center |-> p.center,
             size |-> <<fixed_edge, fixed_edge, fixed_edge>>, key |-> p.key, n |-> p.n]

\* open() raises on a file that is not there or cannot be read; pick_ligand_group
\* may raise ValueError; the size is the fixed cube
compute_site_box_from_receptor(kind, lines, lig_resname, fixed_edge) ==
    IF kind = "missing" THEN SiteBoxRaised("FileNotFoundError")
    ELSE IF kind = "unreadable" THEN SiteBoxRaised("OSError")
    ELSE LET p == pick_ligand_group(parse_pdbqt_het_groups(lines), lig_resname)
         IN IF p.status # "ok" THEN SiteBoxRaised(p.status)
            ELSE [status |-> "ok", center |-> p.center,
                  size |-> <<fixed_edge, fixed_edge, fixed_edge>>, key |-> p.key, n |-> p.n]

\* ------------------------- random_run_script.py, script_run.py and Test.py
\* AUTO_BOX_SIZE of random_run_script.py, the literal (25.0, 25.0, 25.0) of the others
AUTO_BOX_SIZE == <<250000, 250000, 250000>>
\* HEAVY_ATOM_BUFFER of random_run_script.py, the default buffer=5.0 of the others
HEAVY_ATOM_BUFFER == 50000

Scripts == {"random_run_script", "script_run", "Test"}

\* only random_run_script.py wraps the open() in try / except FileNotFoundError
CatchesFileNotFound(script) == script = "random_run_script"

\* atom_name.startswith("H") on the atom names of the model
StartsWithH(name) == name \in {"H", "HN", "HG"}

\* xs, ys, zs after the loop over the lines, as one list of points
RECURSIVE HeavyFrom(_, _)
HeavyFrom(lines, pts) ==
    IF lines = <<>> THEN pts
    ELSE LET line == Head(lines)
         IN IF line.rec \notin {"ATOM", "HETATM"} THEN HeavyFrom(Tail(lines), pts)
            ELSE IF StartsWithH(Strip(line.name)) THEN HeavyFrom(Tail(lines), pts)
            ELSE IF ~line.ok THEN HeavyFrom(Tail(lines), pts)
            ELSE HeavyFrom(Tail(lines), Append(pts, line.xyz))

\* what a box function returns (center, size), or the exception that leaves
\* it; opened tells whether it opened the receptor file
NotBuilt == [status |-> "none", center |-> [num |-> <<0, 0, 0>>, den |-> 1],
             size |-> <<0, 0, 0>>, opened |-> FALSE, script |-> "none"]
BoxOf(center, size, opened) ==
    [NotBuilt EXCEPT !.status = "ok", !.center = center, !.size = size, !.opened = opened]
BoxRaised(why, opened) == [NotBuilt EXCEPT !.status = why, !.opened = opened]

\* DefaultBox gone wrong: no coordinates is an error.
DefaultBoxRaises == BoxRaised("ValueError: no coordinates", TRUE)

\* return (0.0, 0.0, 0.0), (25.0, 25.0, 25.0)
DefaultBox == BoxOf([num |-> <<0, 0, 0>>, den |-> 1], <<250000, 250000, 250000>>, TRUE)

\* size = (maxc - minc) + buffer
ExtentPlusBuffer(pts, buffer) ==
    [a \in 1..3 |-> MaxAxis(pts, a) - MinAxis(pts, a) + buffer]

estimate_docking_box_from_pdbqt(kind, lines, script) ==
    IF kind = "missing"
    THEN IF CatchesFileNotFound(script) THEN DefaultBox
         ELSE BoxRaised("FileNotFoundError", TRUE)
    ELSE IF kind = "unreadable" THEN BoxRaised("OSError", TRUE)
    ELSE LET pts == HeavyFrom(lines, <<>>)
         IN IF pts = <<>> THEN DefaultBox
            ELSE BoxOf(MeanOf(pts), ExtentPlusBuffer(pts, HEAVY_ATOM_BUFFER), TRUE)

\* BINDING_CENTERS as the import leaves it
EmptyRegistry == [k \in {} |-> None]

\* LoadedRegistry gone wrong: without the file, the registry is not empty.
LoadedRegistryPreset(file) ==
    IF file.exists THEN file.entries
    ELSE [k \in {[base |-> 1, suffix |-> ""]} |->
             [center |-> [num |-> <<0, 0, 0>>, den |-> 1], size |-> AUTO_BOX_SIZE]]

LoadedRegistry(file) == IF file.exists THEN file.entries ELSE EmptyRegistry

\* build_box_for_receptor gone wrong: the size the estimator computed is
\* kept, raised to the automatic size.
build_box_keep_estimate(registry, rec_stem, kind, lines, script) ==
    IF rec_stem \in DOMAIN registry
    THEN BoxOf(registry[rec_stem].center, registry[rec_stem].size, FALSE)
    ELSE LET est == estimate_docking_box_from_pdbqt(kind, lines, script)
         IN IF est.status # "ok" THEN est
            ELSE BoxOf(est.center, [a \in 1..3 |-> Max2(est.size[a], AUTO_BOX_SIZE[a])], TRUE)

\* build_box_for_receptor gone wrong: the receptor is estimated first and the
\* registry only consulted when that gave the default box.
build_box_estimate_first(registry, rec_stem, kind, lines, script) ==
    LET est == estimate_docking_box_from_pdbqt(kind, lines, script)
    IN IF est.status = "ok" /\ est # DefaultBox THEN BoxOf(est.center, AUTO_BOX_SIZE, TRUE)
       ELSE IF rec_stem \in DOMAIN registry
       THEN BoxOf(registry[rec_stem].center, registry[rec_stem].size, TRUE)
       ELSE est

build_box_for_receptor(registry, rec_stem, kind, lines, script) ==
    IF rec_stem \in DOMAIN registry
    THEN LET data == registry[rec_stem]
         IN IF "center" \notin DOMAIN data THEN BoxRaised("KeyError: center", FALSE)
            ELSE IF "size" \notin DOMAIN data THEN BoxRaised("KeyError: size", FALSE)
            ELSE BoxOf(data.center, data.size, FALSE)
    ELSE LET est == estimate_docking_box_from_pdbqt(kind, lines, script)
         IN IF est.status # "ok" THEN est
            ELSE BoxOf(est.center, AUTO_BOX_SIZE, TRUE)

NoStem == [base |-> 0, suffix |-> ""]

\* no run of script_run.py
RunIdle ==
    /\ protFiles = <<>>
    /\ runPc = "idle"
    /\ runNext = 0
    /\ outDir = {}
    /\ csvOut = {}
    /\ logDir = {}
    /\ stuckLog = <<>>
    /\ counters = [processed |-> 0, errors |-> 0, timeouts |-> 0]
    /\ vinaCalls = <<>>

\* no run of autodock_script.py
FromCsvIdle ==
    /\ pairs = <<>>
    /\ loopPc = "idle"
    /\ pairNext = 0
    /\ runNo = 0
    /\ failed = <<>>
    /\ success = 0
    /\ skipped = 0
    /\ csvFolder = {}
    /\ logFolder = {}
    /\ engineRuns = <<>>
    /\ outcomes = <<>>

\* no log is being parsed
AffIdle == logFile = [exists |-> FALSE, lines |-> <<>>] /\ parsed = <<>> /\ parseTurn = 0
\* no run of convert_proteins.py
ConvIdle ==
    /\ hasAdt = FALSE
    /\ obabelThere = FALSE
    /\ inputs = <<>>
    /\ convPc = "idle"
    /\ convNext = 0
    /\ finalFiles = {}
    /\ failedNames = <<>>
    /\ toolRuns = <<>>
\* no safe_copy call
CopyIdle == destDir = {} /\ copyPc = "off" /\ copySrc = <<>> /\ copyI = 0 /\ copies = <<>>

ToolIdle == FromCsvIdle /\ AffIdle /\ ConvIdle /\ CopyIdle

\* no calls under way at once
ConcIdle == workers = <<>> /\ acc = <<>>

DockIdle ==
    /\ ConcIdle
    /\ ToolIdle
    /\ BINDING_CENTERS = EmptyRegistry
    /\ dockPc = "idle"
    /\ recStem = NoStem
    /\ recKind = "text"
    /\ built = NotBuilt
    /\ siteBox = NoSiteBox
    /\ RunIdle

\* ------------------------------------------------------- process_csv alone
RECURSIVE SeqsUpTo(_, _)
SeqsUpTo(S, n) ==
    IF n = 0 THEN {<<>>}
    ELSE LET shorter == SeqsUpTo(S, n - 1)
         IN shorter \cup {Append(s, x) : s \in {t \in shorter : Len(t) = n - 1}, x \in S}

BoxFiles ==
    {MissingFile, ZeroByteFile, NoColumnsFile}
        \cup {Table("prot_coord", rows) : rows \in SeqsUpTo(Cells, MaxRows)}
        \cup {Table("prot_coord", rows) : rows \in SeqsUpTo(CornerCells, MaxRows + 1)}
        \cup {Table(col, <<c>>) : col \in {"protein_coord", "other"}, c \in AllCells}

NoSecond == [op |-> "none", i |-> 0, j |-> 0]
NoResults == [k \in {} |-> None]

\* Center_boxes.json on disk: absent, or a JSON object of entries by key
AbsentJson == [exists |-> FALSE, entries |-> NoResults]
JsonFile(entries) == [exists |-> TRUE, entries |-> entries]

\* JsonOf gone wrong: the size is written under "center" as well.
JsonCenterAsSize(box) ==
    [center |-> [num |-> box.size, den |-> 1], size |-> box.size, n_points |-> box.n_points]

\* the JSON object of one Box: {"center": [...], "size": [...], "n_points": n}
JsonOf(box) == [center |-> box.center, size |-> box.size, n_points |-> box.n_points]

\* json.dump(results, f, indent=2)
Dumped(res) == [k \in DOMAIN res |-> JsonOf(res[k])]

\* main is not running
MainIdle ==
    /\ csvDir = [k \in {} |-> MissingFile]
    /\ pc = "idle"
    /\ next = 0
    /\ results = NoResults
    /\ outputJson = AbsentJson

InitBox ==
    /\ csvFile \in BoxFiles
    /\ forceCube \in BOOLEAN
    /\ returned = <<>>
    /\ second = NoSecond
    /\ MainIdle
    /\ SiteIdle
    /\ DockIdle

\* data = process_csv(csv_path)
ProcessCsv ==
    /\ returned = <<>>
    /\ returned' = <<process_csv(csvFile, forceCube)>>
    /\ UNCHANGED <<csvFile, forceCube, second>>
    /\ UNCHANGED mainVars
    /\ UNCHANGED siteVars
    /\ UNCHANGED dockVars

\* the same file with rows i and j exchanged
Exchanged(file, i, j) ==
    [file EXCEPT !.rows = [k \in 1..Len(file.rows) |->
                              IF k = i THEN file.rows[j]
                              ELSE IF k = j THEN file.rows[i] ELSE file.rows[k]]]

\* the same file with row i written once more at the end
Repeated(file, i) == [file EXCEPT !.rows = Append(file.rows, file.rows[i])]

\* A second call: on the same file, on the file with two of its rows
\* exchanged, or on the file with one of its rows repeated.  Every row order
\* is an initial state, so exchanges reach every permutation of a column.
ProcessCsvAgain ==
    /\ Len(returned) = 1
    /\ \/ /\ second' = [op |-> "same", i |-> 0, j |-> 0]
          /\ returned' = Append(returned, process_csv(csvFile, forceCube))
       \/ \E i \in 1..Len(csvFile.rows) : \E j \in (i + 1)..Len(csvFile.rows) :
             /\ second' = [op |-> "exchange", i |-> i, j |-> j]
             /\ returned' = Append(returned, process_csv(Exchanged(csvFile, i, j), forceCube))
       \/ \E i \in 1..Len(csvFile.rows) :
             /\ second' = [op |-> "repeat", i |-> i, j |-> i]
             /\ returned' = Append(returned, process_csv(Repeated(csvFile, i), forceCube))
    /\ UNCHANGED <<csvFile, forceCube>>
    /\ UNCHANGED mainVars
    /\ UNCHANGED siteVars
    /\ UNCHANGED dockVars

NextBox == ProcessCsv \/ ProcessCsvAgain

SpecBox == InitBox /\ [][NextBox]_vars

\* -------------------------------------------- main of Build_center_receptor
\* A file stem: a receptor's base name, with or without the _malaria suffix.
Stem(b, sfx) == [base |-> b, suffix |-> sfx]
Stems == {Stem(b, sfx) : b \in 1..NumReceptors, sfx \in {"", "_malaria"}}

\* sorted(PDB_DIR.glob("*.pdb")): 'x' sorts before 'x_malaria', bases in order
SortedPdbStems ==
    [k \in 1..(2 * NumReceptors) |->
        Stem((k + 1) \div 2, IF k % 2 = 1 THEN "" ELSE "_malaria")]

\* alt = pdb_stem.removesuffix("_malaria") if it ends so, else pdb_stem + "_malaria"
AltStem(stem) == Stem(stem.base, IF stem.suffix = "_malaria" THEN "" ELSE "_malaria")

Exists(dir, stem) == dir[stem].kind # "missing"

\* the csv_path main settles on for a PDB stem, "none" when neither name exists
CsvPathFor(dir, stem) ==
    IF Exists(dir, stem) THEN [found |-> TRUE, stem |-> stem]
    ELSE IF Exists(dir, AltStem(stem)) THEN [found |-> TRUE, stem |-> AltStem(stem)]
    ELSE [found |-> FALSE, stem |-> stem]

\* The contact CSVs a run of main may find under a name.
TableEmpty == Table("prot_coord", <<>>)
TableAllBad == Table("prot_coord", <<CellMismatch, NaNCell>>)
TableA == Table("prot_coord", <<CellP0, CellTwo, CellPX>>)
TableB == Table("protein_coord", <<CellFar, CellP5>>)
MainFiles == {MissingFile, ZeroByteFile, TableEmpty, TableAllBad, TableA, TableB}

InitMain ==
    /\ csvDir \in [Stems -> MainFiles]
    /\ pc = "loop"
    /\ next = 1
    /\ results = NoResults
    /\ outputJson = AbsentJson
    /\ forceCube = TRUE
    /\ csvFile = MissingFile
    /\ returned = <<>>
    /\ second = NoSecond
    /\ SiteIdle
    /\ DockIdle

\* BreakLoop: Continue gone wrong, a break in place of the continue.
BreakLoop(k) == 2 * NumReceptors + 1

\* continue: on to the next PDB of the loop
Continue(k) == k + 1

\* results[pdb_stem] = data
Stored(res, stem, box) ==
    [k \in DOMAIN res \cup {stem} |-> IF k = stem THEN box ELSE res[k]]

InLoop == pc = "loop" /\ next <= Len(SortedPdbStems)

\* neither '<stem>.csv' nor the alternate name exists: warn and continue
SkipCsvNotFound ==
    /\ InLoop
    /\ ~CsvPathFor(csvDir, SortedPdbStems[next]).found
    /\ next' = Continue(next)
    /\ UNCHANGED <<csvDir, pc, results, outputJson>>
    /\ UNCHANGED boxVars
    /\ UNCHANGED siteVars
    /\ UNCHANGED dockVars

\* process_csv returned None: continue
SkipNoData ==
    /\ InLoop
    /\ LET path == CsvPathFor(csvDir, SortedPdbStems[next])
       IN /\ path.found
          /\ ~process_csv(csvDir[path.stem], forceCube).ok
    /\ next' = Continue(next)
    /\ UNCHANGED <<csvDir, pc, results, outputJson>>
    /\ UNCHANGED boxVars
    /\ UNCHANGED siteVars
    /\ UNCHANGED dockVars

\* process_csv returned a Box: it is stored under the PDB stem
StoreBox ==
    /\ InLoop
    /\ LET path == CsvPathFor(csvDir, SortedPdbStems[next])
           box == process_csv(csvDir[path.stem], forceCube)
       IN /\ path.found
          /\ box.ok
          /\ results' = Stored(results, SortedPdbStems[next], box)
    /\ next' = next + 1
    /\ UNCHANGED <<csvDir, pc, outputJson>>
    /\ UNCHANGED boxVars
    /\ UNCHANGED siteVars
    /\ UNCHANGED dockVars

\* the loop is over: json.dump(results, f)
WriteJson ==
    /\ pc = "loop"
    /\ next > Len(SortedPdbStems)
    /\ outputJson' = JsonFile(Dumped(results))
    /\ pc' = "done"
    /\ UNCHANGED <<csvDir, next, results>>
    /\ UNCHANGED boxVars
    /\ UNCHANGED siteVars
    /\ UNCHANGED dockVars

NextMain == SkipCsvNotFound \/ SkipNoData \/ StoreBox \/ WriteJson

SpecMain == InitMain /\ [][NextMain]_vars

\* ----------------------------------------- compute_site_box_from_receptor
InitSite ==
    /\ recLines \in SeqsUpTo(Records, MaxRecords)
    /\ targetResn \in Targets
    /\ groups = <<>>
    /\ picked = NotPicked
    /\ sitePc = "start"
    /\ csvFile = MissingFile
    /\ forceCube = TRUE
    /\ returned = <<>>
    /\ second = NoSecond
    /\ MainIdle
    /\ DockIdle

\* groups = parse_pdbqt_het_groups(receptor_pdbqt)
ParseHetGroups ==
    /\ sitePc = "start"
    /\ groups' = parse_pdbqt_het_groups(recLines)
    /\ sitePc' = "parsed"
    /\ UNCHANGED <<recLines, targetResn, picked>>
    /\ UNCHANGED <<boxVars, mainVars>>
    /\ UNCHANGED dockVars

\* center, key, n = pick_ligand_group(groups, target_resn=lig_resname)
PickLigandGroup ==
    /\ sitePc = "parsed"
    /\ picked' = pick_ligand_group(groups, targetResn)
    /\ sitePc' = "picked"
    /\ UNCHANGED <<recLines, targetResn, groups>>
    /\ UNCHANGED <<boxVars, mainVars>>
    /\ UNCHANGED dockVars

NextSite == ParseHetGroups \/ PickLigandGroup

SpecSite == InitSite /\ [][NextSite]_vars

\* ------------------------------------------- what process_csv was called on
\* the coordinates of the column that parse, every occurrence
InputPoints == ExtractCoords(csvFile.rows)

\* the distinct points left once every coordinate is rounded to 3 decimals
DistinctRounded == {RoundPoint(InputPoints[i]) : i \in 1..Len(InputPoints)}

RECURSIVE SetSum(_, _)
SetSum(S, a) ==
    IF S = {} THEN 0 ELSE LET p == CHOOSE q \in S : TRUE IN p[a] + SetSum(S \ {p}, a)

Highest(V) == CHOOSE m \in V : \A v \in V : v <= m
Lowest(V) == CHOOSE m \in V : \A v \in V : m <= v

\* extent of the input on axis a: as written, and after the rounding
ExtentRaw(a) ==
    LET V == {InputPoints[i][a] : i \in 1..Len(InputPoints)} IN Highest(V) - Lowest(V)
ExtentRounded(a) ==
    LET V == {p[a] : p \in DistinctRounded} IN Highest(V) - Lowest(V)

Axes == 1..3
Floor(v) == IF v >= MIN_SIZE THEN v ELSE MIN_SIZE

\* the first call was made and returned a Box
Estimated == Len(returned) = 1 /\ returned[1].ok
TheBox == returned[1]

\* C1 as claimed: the center is the mean of all the input coordinates, every
\* occurrence of a point counted.
C1_CenterIsMeanOfAllInputs ==
    Estimated =>
        \A a \in Axes :
            TheBox.center.num[a] * Len(InputPoints) = SumAxis(InputPoints, a) * TheBox.center.den

\* C1, amended: the center is the mean of the distinct input points after each
\* coordinate is rounded to three decimals, every distinct rounded point
\* counted once.
C1_CenterIsMeanOfDistinctRounded ==
    Estimated =>
        \A a \in Axes :
            TheBox.center.num[a] * Cardinality(DistinctRounded)
                = SetSum(DistinctRounded, a) * TheBox.center.den

\* C1 witness: a Box was returned for a column of three different points of
\* which two are the same point once rounded.
C1_Witness ==
    /\ Estimated
    /\ Cardinality({InputPoints[i] : i \in 1..Len(InputPoints)}) = 3
    /\ Cardinality(DistinctRounded) = 2

\* the size the formula of C2 gives from per-axis extents
FormulaSize(ext(_), a) ==
    LET s(b) == Floor(ext(b) + 2 * PAD)
    IN IF forceCube THEN Highest({s(b) : b \in Axes}) ELSE s(a)

\* C2 as claimed: the size is max((max - min) + 2 pad, min_size) per axis, the
\* largest of the three on every axis under force_cube, with max and min those
\* of the input points; no axis is below (max - min) + 2 pad.
C2_SizeFromInputExtent ==
    Estimated =>
        \A a \in Axes :
            /\ TheBox.size[a] = FormulaSize(ExtentRaw, a)
            /\ TheBox.size[a] >= ExtentRaw(a) + 2 * PAD

\* C2, amended: the same formula with max and min taken over the coordinates
\* rounded to three decimals.
C2_SizeFromRoundedExtent ==
    Estimated =>
        \A a \in Axes :
            /\ TheBox.size[a] = FormulaSize(ExtentRounded, a)
            /\ TheBox.size[a] >= ExtentRounded(a) + 2 * PAD

\* C2 witness: a box without force_cube whose first axis is above min_size and
\* whose second axis is held at min_size.
C2_Witness ==
    /\ Estimated
    /\ ~forceCube
    /\ TheBox.size[1] > MIN_SIZE
    /\ TheBox.size[2] = MIN_SIZE

\* the input lies in a plane across some axis (coplanar; collinear or a single
\* point when it does so across two or three axes)
Degenerate == \E a \in Axes : ExtentRounded(a) = 0
SinglePoint == Cardinality(DistinctRounded) = 1
MinCube == [a \in Axes |-> MIN_SIZE]

\* C3 as claimed: every axis is at least min_size, and a single-point,
\* collinear or coplanar input yields (16, 16, 16).
C3_DegenerateYieldsMinCube ==
    Estimated =>
        /\ \A a \in Axes : TheBox.size[a] >= MIN_SIZE
        /\ Degenerate => TheBox.size = MinCube

\* C3, amended: every axis is at least min_size; a single-point input yields
\* (16, 16, 16), and so does any input whose extent plus 2 pad is at most
\* min_size on every axis, a collinear or coplanar one included.
C3_SizeAtLeastMinSize ==
    Estimated =>
        /\ \A a \in Axes : TheBox.size[a] >= MIN_SIZE
        /\ SinglePoint => TheBox.size = MinCube
        /\ (\A a \in Axes : ExtentRounded(a) + 2 * PAD <= MIN_SIZE) => TheBox.size = MinCube

\* C3 witness: a Box for the single point (5, 5, 5).
C3_Witness ==
    /\ Estimated
    /\ InputPoints = <<(<<50000, 50000, 50000>>)>>
    /\ TheBox.size = MinCube

\* C4: with force_cube the three size components of a returned Box are equal.
C4_CubeAxesEqual ==
    \A k \in 1..Len(returned) :
        (forceCube /\ returned[k].ok) =>
            (returned[k].size[1] = returned[k].size[2] /\ returned[k].size[2] = returned[k].size[3])

\* C4 witness: force_cube on an input longer than min_size along x and flat
\* along y.
C4_Witness ==
    /\ Estimated
    /\ forceCube
    /\ ExtentRounded(1) + 2 * PAD > MIN_SIZE
    /\ ExtentRounded(2) = 0

\* C5 as claimed: n_points is the number of input points, duplicates counted.
C5_NPointsIsInputLength ==
    Estimated => (TheBox.n_points = Len(InputPoints) /\ TheBox.n_points >= 1)

\* C5, amended: n_points is the number of distinct input points after the
\* rounding to three decimals, and is at least 1.
C5_NPointsIsDistinctCount ==
    Estimated => (TheBox.n_points = Cardinality(DistinctRounded) /\ TheBox.n_points >= 1)

\* C5 witness: a Box for three rows holding two distinct points.
C5_Witness ==
    /\ Estimated
    /\ Len(InputPoints) = 3
    /\ TheBox.n_points = 2

\* C6: a second call on the same input, on the same rows in another order, or
\* on the same set of points with one of them repeated, returns what the first
\* call returned.
C6_SameSetSameBox == Len(returned) = 2 => returned[2] = returned[1]

\* C6 witness: two calls returned a Box, the second on a file in which two rows
\* holding different points had been exchanged.
C6_Witness ==
    /\ Len(returned) = 2
    /\ returned[1].ok
    /\ second.op = "exchange"
    /\ parse_coord(csvFile.rows[second.i]).ok
    /\ parse_coord(csvFile.rows[second.j]).ok
    /\ csvFile.rows[second.i] # csvFile.rows[second.j]

FourPoints == <<(<<0, 0, 0>>), (<<100000, 0, 0>>), (<<0, 100000, 0>>), (<<0, 0, 100000>>)>>

\* C8: the points (0,0,0), (10,0,0), (0,10,0), (0,0,10) with force_cube give
\* center (2.5, 2.5, 2.5), size (16, 16, 16) and n_points 4.
C8_FourPointExample ==
    (Estimated /\ forceCube /\ InputPoints = FourPoints) =>
        /\ \A a \in Axes : TheBox.center.num[a] = 25000 * TheBox.center.den
        /\ TheBox.size = <<160000, 160000, 160000>>
        /\ TheBox.n_points = 4

\* C8 witness: process_csv returned for exactly these four rows under force_cube.
C8_Witness == Estimated /\ forceCube /\ InputPoints = FourPoints

\* ------------------------------------------------------ what main was run on
\* the contact CSV of a PDB stem: the one under its own name, else the one
\* under its alternate name
CsvOf(stem) == IF csvDir[stem] # MissingFile THEN csvDir[stem] ELSE csvDir[AltStem(stem)]

\* a coordinate column is read from the file and some row of it parses
Usable(file) ==
    /\ file.kind = "table"
    /\ file.col \in CoordColumns
    /\ \E i \in 1..Len(file.rows) : parse_coord(file.rows[i]).ok

\* a coordinate column is read and no coordinate is left after the filtering
NoCoordinateLeft(file) ==
    /\ file.kind = "table"
    /\ file.col \in CoordColumns
    /\ \A i \in 1..Len(file.rows) : ~parse_coord(file.rows[i]).ok

Handled(k) == pc \in {"loop", "done"} /\ k < next

\* C7: a receptor whose contact CSV leaves no usable coordinate gets no Box and
\* no entry in results or in the file written, and the run goes on: every
\* receptor is outcomes, each one with a usable coordinate has its entry, and
\* the file is written with exactly those entries.
C7_NoCoordinateNoEntry ==
    /\ \A k \in 1..Len(SortedPdbStems) :
          Handled(k) =>
              /\ NoCoordinateLeft(CsvOf(SortedPdbStems[k])) => SortedPdbStems[k] \notin DOMAIN results
              /\ Usable(CsvOf(SortedPdbStems[k])) =>
                    (SortedPdbStems[k] \in DOMAIN results /\ results[SortedPdbStems[k]].ok)
    /\ pc = "done" =>
          /\ next = Len(SortedPdbStems) + 1
          /\ DOMAIN outputJson.entries = {st \in Stems : Usable(CsvOf(st))}

\* C7 witness: the run is over; the first receptor's CSV held malformed rows
\* only, another one's held no row at all, and a later receptor has its entry
\* in the file written.
C7_Witness ==
    /\ pc = "done"
    /\ CsvOf(SortedPdbStems[1]) = TableAllBad
    /\ \E k \in 2..Len(SortedPdbStems) : CsvOf(SortedPdbStems[k]) = TableEmpty
    /\ SortedPdbStems[Len(SortedPdbStems)] \in DOMAIN outputJson.entries
    /\ SortedPdbStems[1] \notin DOMAIN outputJson.entries

\* ------------------------------------------ build_box_for_receptor alone
RecAtomFar == Record("ATOM", "N", "GLY", "A", "7", TRUE, <<300000, 20000, 0>>)
RecHyd == Record("ATOM", " HN ", "ALA", "A", "6", TRUE, <<-100000, 0, 0>>)
RecAtomBad == Record("ATOM", "CB", "ALA", "A", "6", FALSE, <<0, 0, 0>>)
RecRemark == Record("REMARK", "", "", "", "", FALSE, <<0, 0, 0>>)
BuildRecords ==
    {RecAtom, RecAtomFar, RecHyd, RecAtomBad, RecLigA1, RecLigB, RecHoh, RecRemark}

\* entries of a Center_boxes.json
EntryA == [center |-> [num |-> <<10000, 20000, 30000>>, den |-> 1],
           size |-> <<200000, 220000, 240000>>, n_points |-> 3]
EntryB == [center |-> [num |-> <<70000, 0, 0>>, den |-> 2],
           size |-> <<160000, 160000, 160000>>, n_points |-> 2]

\* the Center_boxes.json a docking script may find next to it
BuildRegistryFiles ==
    {AbsentJson, JsonFile(EmptyRegistry),
     JsonFile([k \in {Stem(1, "")} |-> EntryA]),
     JsonFile([k \in {Stem(1, "_malaria")} |-> EntryA]),
     JsonFile([k \in {Stem(1, ""), Stem(1, "_malaria")} |->
                  IF k = Stem(1, "") THEN EntryB ELSE EntryA])}

BuildTargets == {NoTarget, Target(" lig ")}

InitBuild ==
    /\ outputJson \in BuildRegistryFiles
    /\ BINDING_CENTERS = EmptyRegistry
    /\ dockPc = "import"
    /\ recStem = Stem(1, "")
    /\ \/ recKind = "text" /\ recLines \in SeqsUpTo(BuildRecords, MaxLines)
       \/ recKind \in {"missing", "unreadable"} /\ recLines = <<>>
    /\ targetResn \in BuildTargets
    /\ built = NotBuilt
    /\ siteBox = NoSiteBox
    /\ RunIdle
    /\ ConcIdle
    /\ ToolIdle
    /\ groups = <<>>
    /\ picked = NotPicked
    /\ sitePc = "idle"
    /\ csvDir = [k \in {} |-> MissingFile]
    /\ pc = "idle"
    /\ next = 0
    /\ results = NoResults
    /\ csvFile = MissingFile
    /\ forceCube = TRUE
    /\ returned = <<>>
    /\ second = NoSecond

\* the import of a docking script: BINDING_CENTERS is read from the file
LoadRegistry ==
    /\ dockPc = "import"
    /\ BINDING_CENTERS' = LoadedRegistry(outputJson)
    /\ dockPc' = "ready"
    /\ UNCHANGED <<recStem, recKind, built, siteBox>>
    /\ UNCHANGED <<boxVars, mainVars, siteVars, runVars, concVars, toolVars>>

\* center, size = build_box_for_receptor(receptor_path), in one of the scripts
BuildBox ==
    /\ dockPc = "ready"
    /\ built = NotBuilt
    /\ \E script \in Scripts :
          built' = [build_box_for_receptor(BINDING_CENTERS, recStem, recKind, recLines, script)
                       EXCEPT !.script = script]
    /\ UNCHANGED <<BINDING_CENTERS, dockPc, recStem, recKind, siteBox>>
    /\ UNCHANGED <<boxVars, mainVars, siteVars, runVars, concVars, toolVars>>

\* compute_site_box_from_receptor(rec_path, lig_resname, FIXED_EDGE) of
\* autodock_script.py, on the same receptor
ComputeSiteBox ==
    /\ dockPc \in {"import", "ready"}
    /\ siteBox = NoSiteBox
    /\ siteBox' = compute_site_box_from_receptor(recKind, recLines, targetResn, FIXED_EDGE)
    /\ UNCHANGED <<BINDING_CENTERS, dockPc, recStem, recKind, built>>
    /\ UNCHANGED <<boxVars, mainVars, siteVars, runVars, concVars, toolVars>>

NextBuild == LoadRegistry \/ BuildBox \/ ComputeSiteBox

SpecBuild == InitBuild /\ [][NextBuild]_vars

\* ------------------------------------------- the main loop of script_run.py
\* common = sorted(set(lig_map) & set(rec_map))
common == [k \in 1..NumPairs |-> Stem(k, "")]
CommonStems == {common[k] : k \in 1..NumPairs}

\* the two file-name stems the script forms for a pair: f"{lig_base}" in
\* run_docking_pair and save_to_csv, f"{stem}_vs_{stem}" in the main loop
Plain(stem) == [stem |-> stem, form |-> "stem"]
Versus(stem) == [stem |-> stem, form |-> "stem_vs_stem"]

\* prefix = f"{lig_base}"
PairPrefix(stem) == Plain(stem)
\* out_file = output_folder / f"{stem}_vs_{stem}.pdbqt"
LoopOutFile(stem) == Versus(stem)

\* append_stuck(prefix, reason)
AppendStuck(log, prefix, reason) == Append(log, [prefix |-> prefix, reason |-> reason])

\* the lines of the stuck log that start with f"{stem}_vs_{stem}\t" and hold
\* the reason
StuckLines(log, stem, reason) ==
    Cardinality({i \in 1..Len(log) : log[i].prefix = Versus(stem) /\ log[i].reason = reason})

\* len(list(csv_folder.glob(f"{stem}_vs_{stem}.csv")))
CsvCount(dir, stem) == IF Versus(stem) \in dir THEN 1 ELSE 0

\* the accounting of the main loop after run_docking_pair returned
Counted(c, log, before, after, stem) ==
    [processed |-> c.processed + (IF CsvCount(after, stem) > CsvCount(before, stem) THEN 1 ELSE 0),
     errors |-> c.errors + StuckLines(log, stem, "error"),
     timeouts |-> c.timeouts + StuckLines(log, stem, "timeout")]

\* with open(log_path, "w") as lf: lf.write(stdout or "")
WriteLog(dir, name, holds) ==
    {l \in dir : l.name # name} \cup {[name |-> name, holds |-> holds]}

\* the receptor PDBQT files of a run: found by glob, so they exist
RunFile(kind, lines) == [kind |-> kind, lines |-> lines]
FileHeavy == RunFile("text", <<RecAtom, RecHyd, RecAtomFar>>)
FileNoHeavy == RunFile("text", <<RecHyd, RecAtomBad, RecRemark>>)
FileUnreadable == RunFile("unreadable", <<>>)
RunFiles == {FileHeavy, FileNoHeavy, FileUnreadable}

EntryNoCenter == [size |-> <<200000, 220000, 240000>>, n_points |-> 3]
EntryNoSize == [center |-> [num |-> <<10000, 20000, 30000>>, den |-> 1], n_points |-> 3]
RunEntries == {EntryA, EntryNoCenter, EntryNoSize}

RunRegistryFiles ==
    {AbsentJson, JsonFile(EmptyRegistry)}
        \cup {JsonFile([k \in {st} |-> e]) : st \in CommonStems, e \in RunEntries}

\* what earlier runs may have left in output_folder
InitialOutputs ==
    {{}} \cup UNION {{{Plain(st)}, {Versus(st)}, {Plain(st), Versus(st)}} : st \in CommonStems}

\* what an earlier run may have left in stuck_timeouts.txt
InitialStuck == {<<>>, <<[prefix |-> PairPrefix(common[1]), reason |-> "timeout"]>>}

InitRun ==
    /\ outputJson \in RunRegistryFiles
    /\ BINDING_CENTERS = EmptyRegistry
    /\ dockPc = "import"
    /\ protFiles \in [CommonStems -> RunFiles]
    /\ runPc = "loop"
    /\ runNext = 1
    /\ outDir \in InitialOutputs
    /\ csvOut = {}
    /\ logDir = {}
    /\ stuckLog \in InitialStuck
    /\ counters = [processed |-> 0, errors |-> 0, timeouts |-> 0]
    /\ vinaCalls = <<>>
    /\ ConcIdle
    /\ ToolIdle
    /\ recStem = NoStem
    /\ recKind = "text"
    /\ built = NotBuilt
    /\ siteBox = NoSiteBox
    /\ SiteIdle
    /\ csvDir = [k \in {} |-> MissingFile]
    /\ pc = "idle"
    /\ next = 0
    /\ results = NoResults
    /\ csvFile = MissingFile
    /\ forceCube = TRUE
    /\ returned = <<>>
    /\ second = NoSecond

InRunLoop == dockPc = "ready" /\ runPc = "loop" /\ runNext <= Len(common)

\* the box run_docking_pair builds for the receptor of a stem
BoxFor(stem) ==
    build_box_for_receptor(BINDING_CENTERS, stem, protFiles[stem].kind,
                           protFiles[stem].lines, "script_run")

\* run_docking_pair gets as far as the box for the stem the loop is at
ToDock ==
    /\ InRunLoop
    /\ LoopOutFile(common[runNext]) \notin outDir
    /\ PairPrefix(common[runNext]) \notin outDir

\* if out_file.exists(): continue
FastSkip ==
    /\ InRunLoop
    /\ LoopOutFile(common[runNext]) \in outDir
    /\ runNext' = runNext + 1
    /\ UNCHANGED <<protFiles, runPc, outDir, csvOut, logDir, stuckLog, counters, vinaCalls>>
    /\ UNCHANGED <<buildVars, boxVars, mainVars, siteVars, concVars, toolVars>>

\* run_docking_pair returns at once: out_pdbqt exists
PairSkip ==
    /\ InRunLoop
    /\ LoopOutFile(common[runNext]) \notin outDir
    /\ PairPrefix(common[runNext]) \in outDir
    /\ counters' = Counted(counters, stuckLog, csvOut, csvOut, common[runNext])
    /\ runNext' = runNext + 1
    /\ UNCHANGED <<protFiles, runPc, outDir, csvOut, logDir, stuckLog, vinaCalls>>
    /\ UNCHANGED <<buildVars, boxVars, mainVars, siteVars, concVars, toolVars>>

\* build_box_for_receptor raises: nothing catches it in run_docking_pair nor in
\* the loop, and the script ends with the traceback
BoxRaises ==
    /\ ToDock
    /\ BoxFor(common[runNext]).status # "ok"
    /\ built' = BoxFor(common[runNext])
    /\ runPc' = "aborted"
    /\ UNCHANGED <<protFiles, runNext, outDir, csvOut, logDir, stuckLog, counters, vinaCalls>>
    /\ UNCHANGED <<BINDING_CENTERS, dockPc, recStem, recKind, siteBox>>
    /\ UNCHANGED <<boxVars, mainVars, siteVars, concVars, toolVars>>

\* what the engine had printed when it was killed or ended with a non-zero code
Captured == {"", "no affinities"}

\* one run of the engine: the box it was given, how run_vina ended, the stdout
\* captured, and whether the engine had created the --out file
VinaCall(stem, box, ended, stdout, wrote) ==
    [stem |-> stem, center |-> box.center, size |-> box.size, ended |-> ended,
     stdout |-> stdout, wrote |-> wrote]

\* RemoveOutput gone wrong: a partial output is left where it is.
KeepOutput(dir, name) == dir

\* if out_pdbqt.exists(): out_pdbqt.unlink()
RemoveOutput(dir, name) == dir \ {name}

\* run_vina raises TimeoutError or RuntimeError: the log is written, a partial
\* output is removed, the pair goes to the stuck log
VinaFails ==
    /\ ToDock
    /\ BoxFor(common[runNext]).status = "ok"
    /\ built' = BoxFor(common[runNext])
    /\ \E reason \in {"timeout", "error"}, stdout \in Captured, wrote \in BOOLEAN :
          /\ logDir' = WriteLog(logDir, PairPrefix(common[runNext]), stdout)
          /\ stuckLog' = AppendStuck(stuckLog, PairPrefix(common[runNext]), reason)
          /\ counters' = Counted(counters, stuckLog', csvOut, csvOut, common[runNext])
          /\ vinaCalls' = Append(vinaCalls, VinaCall(common[runNext], built', reason, stdout, wrote))
          /\ outDir' = RemoveOutput(IF wrote THEN outDir \cup {PairPrefix(common[runNext])}
                                    ELSE outDir, PairPrefix(common[runNext]))
    /\ runNext' = runNext + 1
    /\ UNCHANGED <<protFiles, runPc, csvOut>>
    /\ UNCHANGED <<BINDING_CENTERS, dockPc, recStem, recKind, siteBox>>
    /\ UNCHANGED <<boxVars, mainVars, siteVars, concVars, toolVars>>

\* run_vina returns: the output and the log are written, and the CSV when
\* parse_affinities found affinities in the log
VinaDone ==
    /\ ToDock
    /\ BoxFor(common[runNext]).status = "ok"
    /\ built' = BoxFor(common[runNext])
    /\ \E holds \in {"affinities", "no affinities"} :
          /\ logDir' = WriteLog(logDir, PairPrefix(common[runNext]), holds)
          /\ csvOut' = IF holds = "affinities"
                       THEN csvOut \cup {PairPrefix(common[runNext])} ELSE csvOut
          /\ counters' = Counted(counters, stuckLog, csvOut, csvOut', common[runNext])
          /\ vinaCalls' = Append(vinaCalls, VinaCall(common[runNext], built', "returned", holds, TRUE))
    /\ outDir' = outDir \cup {PairPrefix(common[runNext])}
    /\ runNext' = runNext + 1
    /\ UNCHANGED <<protFiles, runPc, stuckLog>>
    /\ UNCHANGED <<BINDING_CENTERS, dockPc, recStem, recKind, siteBox>>
    /\ UNCHANGED <<boxVars, mainVars, siteVars, concVars, toolVars>>

\* the loop is over: the counters are printed
EndRun ==
    /\ dockPc = "ready"
    /\ runPc = "loop"
    /\ runNext > Len(common)
    /\ runPc' = "done"
    /\ UNCHANGED <<protFiles, runNext, outDir, csvOut, logDir, stuckLog, counters, vinaCalls>>
    /\ UNCHANGED <<buildVars, boxVars, mainVars, siteVars, concVars, toolVars>>

NextRun == LoadRegistry \/ FastSkip \/ PairSkip \/ BoxRaises \/ VinaFails \/ VinaDone \/ EndRun

SpecRun == InitRun /\ [][NextRun]_vars

\* ------------------------------ the three parsers on the same kind of input
MixedCells == {CellP0, CellPX, CellMismatch, NaNCell}
MixedRecords == {RecLigA1, RecLigB, RecLigBad, RecAtomBad}

InitMixed ==
    /\ csvFile \in {Table("prot_coord", rows) : rows \in SeqsUpTo(MixedCells, MaxMixed)}
    /\ forceCube = TRUE
    /\ returned = <<>>
    /\ second = NoSecond
    /\ MainIdle
    /\ recLines \in SeqsUpTo(MixedRecords, MaxMixed)
    /\ targetResn = NoTarget
    /\ groups = <<>>
    /\ picked = NotPicked
    /\ sitePc = "idle"
    /\ BINDING_CENTERS = EmptyRegistry
    /\ dockPc = "import"
    /\ recStem = Stem(1, "")
    /\ recKind = "text"
    /\ built = NotBuilt
    /\ siteBox = NoSiteBox
    /\ RunIdle
    /\ ConcIdle
    /\ ToolIdle

NextMixed == ProcessCsv \/ LoadRegistry \/ BuildBox \/ ComputeSiteBox

SpecMixed == InitMixed /\ [][NextMixed]_vars

\* ------------------------------ build_box_for_receptor calls under way at once
\* Each call is taken apart into its steps: the look-up in BINDING_CENTERS, the
\* open(), one step per line read, and the return.  xs, ys, zs are locals of
\* the call: each call has a list of its own.
Workers == 1..NumWorkers
WorkerStem(w) == Stem(w, "")

\* OwnList gone wrong: xs, ys, zs are module-level lists, one for all calls.
SharedList(w) == 1

\* which list a call collects its points in: its own
OwnList(w) == w

FileTwoAtoms == RunFile("text", <<RecHoh, RecAtomBad, RecLigB>>)
ConcFiles == {FileHeavy, FileNoHeavy, FileTwoAtoms, FileUnreadable}

Waiting == [at |-> "called", line |-> 0, box |-> NotBuilt]

InitConc ==
    /\ outputJson \in {AbsentJson, JsonFile([k \in {Stem(1, "")} |-> EntryA])}
    /\ BINDING_CENTERS = LoadedRegistry(outputJson)
    /\ dockPc = "ready"
    /\ protFiles \in [{WorkerStem(w) : w \in Workers} -> ConcFiles]
    /\ workers = [w \in Workers |-> Waiting]
    /\ acc = [w \in Workers |-> <<>>]
    /\ ToolIdle
    /\ runPc = "idle"
    /\ runNext = 0
    /\ outDir = {}
    /\ csvOut = {}
    /\ logDir = {}
    /\ stuckLog = <<>>
    /\ counters = [processed |-> 0, errors |-> 0, timeouts |-> 0]
    /\ vinaCalls = <<>>
    /\ recStem = NoStem
    /\ recKind = "text"
    /\ built = NotBuilt
    /\ siteBox = NoSiteBox
    /\ SiteIdle
    /\ csvDir = [k \in {} |-> MissingFile]
    /\ pc = "idle"
    /\ next = 0
    /\ results = NoResults
    /\ csvFile = MissingFile
    /\ forceCube = TRUE
    /\ returned = <<>>
    /\ second = NoSecond

ConcFrame ==
    /\ UNCHANGED <<buildVars, runVars, boxVars, mainVars, siteVars, toolVars>>

\* if rec_stem in BINDING_CENTERS: return the stored center and size
LookupHit(w) ==
    /\ workers[w].at = "called"
    /\ WorkerStem(w) \in DOMAIN BINDING_CENTERS
    /\ workers' = [workers EXCEPT ![w] =
                      [at |-> "returned", line |-> 0,
                       box |-> BoxOf(BINDING_CENTERS[WorkerStem(w)].center,
                                     BINDING_CENTERS[WorkerStem(w)].size, FALSE)]]
    /\ UNCHANGED acc
    /\ ConcFrame

\* no entry: estimate_docking_box_from_pdbqt is entered, xs, ys, zs = [], [], []
\* and the file is opened, which raises when it cannot be read
LookupMiss(w) ==
    /\ workers[w].at = "called"
    /\ WorkerStem(w) \notin DOMAIN BINDING_CENTERS
    /\ acc' = [acc EXCEPT ![OwnList(w)] = <<>>]
    /\ workers' = [workers EXCEPT ![w] =
                      IF protFiles[WorkerStem(w)].kind = "text"
                      THEN [at |-> "reading", line |-> 1, box |-> NotBuilt]
                      ELSE [at |-> "returned", line |-> 0, box |-> BoxRaised("OSError", TRUE)]]
    /\ ConcFrame

\* one turn of 'for line in f'
ReadLine(w) ==
    /\ workers[w].at = "reading"
    /\ workers[w].line <= Len(protFiles[WorkerStem(w)].lines)
    /\ LET line == protFiles[WorkerStem(w)].lines[workers[w].line]
           passed == \/ line.rec \notin {"ATOM", "HETATM"}
                     \/ StartsWithH(Strip(line.name))
                     \/ ~line.ok
       IN acc' = IF passed THEN acc
                 ELSE [acc EXCEPT ![OwnList(w)] = Append(@, line.xyz)]
    /\ workers' = [workers EXCEPT ![w].line = @ + 1]
    /\ ConcFrame

\* the file is read: the default box, or the mean of the points with the
\* automatic size
ReturnBox(w) ==
    /\ workers[w].at = "reading"
    /\ workers[w].line > Len(protFiles[WorkerStem(w)].lines)
    /\ LET pts == acc[OwnList(w)]
       IN workers' = [workers EXCEPT ![w] =
                         [at |-> "returned", line |-> 0,
                          box |-> IF pts = <<>> THEN DefaultBox
                                  ELSE BoxOf(MeanOf(pts), AUTO_BOX_SIZE, TRUE)]]
    /\ UNCHANGED acc
    /\ ConcFrame

NextConc == \E w \in Workers : LookupHit(w) \/ LookupMiss(w) \/ ReadLine(w) \/ ReturnBox(w)

SpecConc == InitConc /\ [][NextConc]_vars

\* ----------------------- a run of main, then the start of a docking script
\* The contact CSVs of the run of main.
RoundTripFiles == {MissingFile, TableAllBad, TableA, TableB}

InitRoundTrip ==
    /\ csvDir \in [Stems -> RoundTripFiles]
    /\ pc = "loop"
    /\ next = 1
    /\ results = NoResults
    /\ outputJson = AbsentJson
    /\ forceCube = TRUE
    /\ csvFile = MissingFile
    /\ returned = <<>>
    /\ second = NoSecond
    /\ SiteIdle
    /\ BINDING_CENTERS = EmptyRegistry
    /\ dockPc = "off"
    /\ recStem = NoStem
    /\ recKind = "text"
    /\ built = NotBuilt
    /\ siteBox = NoSiteBox
    /\ RunIdle
    /\ ConcIdle
    /\ ToolIdle

\* A docking script is started after main has written Center_boxes.json, with
\* a receptor of some stem in prot_folder.
StartDockingScript ==
    /\ pc = "done"
    /\ dockPc = "off"
    /\ dockPc' = "import"
    /\ recStem' \in Stems
    /\ recLines' = FileHeavy.lines
    /\ UNCHANGED <<BINDING_CENTERS, recKind, built, siteBox>>
    /\ UNCHANGED <<targetResn, groups, picked, sitePc>>
    /\ UNCHANGED <<boxVars, mainVars, runVars, concVars, toolVars>>

NextRoundTrip == NextMain \/ StartDockingScript \/ LoadRegistry \/ BuildBox

SpecRoundTrip == InitRoundTrip /\ [][NextRoundTrip]_vars

\* ---------------------------------- what the ligand group was picked from
\* the HETATM records of the receptor whose coordinates parse
HetAtoms == {i \in 1..Len(recLines) : recLines[i].rec = "HETATM" /\ recLines[i].ok}
GroupKeys == {KeyOf(recLines[i]) : i \in HetAtoms}
AtomCount(key) == Cardinality({i \in HetAtoms : KeyOf(recLines[i]) = key})

\* a residue name was asked for: the target is a text that is not blank
TargetGiven == ~targetResn.none /\ Strip(targetResn.text) # ""

\* the groups whose residue name is the target's, the case of letters aside
Matching == {k \in GroupKeys : k[1] = Upper(Strip(targetResn.text))}
NonExcluded == {k \in GroupKeys : k[1] \notin EXCLUDE_RESN}

PickedLargestOf(K) ==
    /\ picked.status = "ok"
    /\ picked.key \in K
    /\ picked.n = AtomCount(picked.key)
    /\ \A k \in K : AtomCount(k) <= picked.n

PickRaised == picked.status \in {"ValueError: no groups", "ValueError: not found"}

\* C9: with a target residue name, pick_ligand_group returns a group with the
\* most atoms among those whose residue name is the target's, letter case
\* aside; when none matches (no group at all included) it raises and returns
\* no other group.
C9_TargetPicksLargestMatchOrRaises ==
    (sitePc = "picked" /\ TargetGiven) =>
        IF Matching = {} THEN PickRaised ELSE PickedLargestOf(Matching)

\* C9 witness: the target ' lig ' was matched against two LIG groups of
\* different sizes while a water group was present.
C9_Witness ==
    /\ sitePc = "picked"
    /\ targetResn = Target(" lig ")
    /\ Cardinality(Matching) = 2
    /\ \E k \in Matching : AtomCount(k) < picked.n
    /\ \E k \in GroupKeys : k[1] = "HOH"

\* C10: with no target residue name and at least one group, no excluded group
\* is returned unless every group is excluded: a largest non-excluded group is
\* returned when there is one, whatever the size of the excluded groups, and a
\* largest group overall, without raising, when every group is excluded.
C10_AutoDetectAvoidsExcluded ==
    (sitePc = "picked" /\ ~TargetGiven /\ GroupKeys # {}) =>
        IF NonExcluded # {} THEN PickedLargestOf(NonExcluded) ELSE PickedLargestOf(GroupKeys)

\* C10 witness: auto-detection returned a LIG group although a water group
\* held more atoms.
C10_Witness ==
    /\ sitePc = "picked"
    /\ targetResn = NoTarget
    /\ picked.status = "ok"
    /\ picked.key[1] = "LIG"
    /\ \E k \in GroupKeys : k[1] = "HOH" /\ AtomCount(k) > picked.n

\* ------------------------------------------------- ties between the largest
\* the groups pick_ligand_group chooses among: the matching ones with a target,
\* else the non-excluded ones, else (every group excluded) all of them
Candidates ==
    IF TargetGiven THEN Matching
    ELSE IF NonExcluded # {} THEN NonExcluded ELSE GroupKeys

\* where in the file a group's first HETATM record stands, and where its first
\* HETATM record with coordinates that parse stands: the one that makes its key
FirstRecord(key) ==
    Lowest({i \in 1..Len(recLines) :
               recLines[i].rec = "HETATM" /\ KeyOf(recLines[i]) = key})
FirstInserted(key) == Lowest({i \in HetAtoms : KeyOf(recLines[i]) = key})

TiedWithPicked == {k \in Candidates : AtomCount(k) = picked.n}

\* C11 as written: among the candidate groups that tie for the most atoms, the
\* one returned is the one whose first HETATM record, parseable or not, stands
\* earliest in the receptor file.
C11_TieGoesToFirstRecord ==
    (sitePc = "picked" /\ picked.status = "ok") =>
        \A k \in TiedWithPicked : FirstRecord(picked.key) <= FirstRecord(k)

\* C11: among the candidate groups that tie for the most atoms, the one
\* returned is the one whose key was inserted first, which is the one whose
\* first HETATM record with parseable coordinates stands earliest in the file,
\* in the targeted, the auto-detect and the all-excluded branch alike.
C11_TieGoesToFirstInserted ==
    (sitePc = "picked" /\ picked.status = "ok") =>
        /\ picked.key \in TiedWithPicked
        /\ \A k \in TiedWithPicked : FirstInserted(picked.key) <= FirstInserted(k)

\* C11 witness: two groups tied for the most atoms, the one returned being the
\* later one in the file by its first record, which was malformed.
C11_Witness ==
    /\ sitePc = "picked"
    /\ picked.status = "ok"
    /\ \E k \in TiedWithPicked :
          /\ k # picked.key
          /\ FirstRecord(k) < FirstRecord(picked.key)
          /\ FirstInserted(picked.key) < FirstInserted(k)

\* ------------------------------------------- what a docking box was built from
WasBuilt == built.status # "none"
InRegistry == recStem \in DOMAIN BINDING_CENTERS

\* the points of the ATOM and HETATM records of the receptor that are no
\* hydrogens and whose coordinates parse
HeavyIndices ==
    {i \in 1..Len(recLines) :
        /\ recLines[i].rec \in {"ATOM", "HETATM"}
        /\ ~StartsWithH(Strip(recLines[i].name))
        /\ recLines[i].ok}
HeavyTagged ==
    {<<i, recLines[i].xyz[1], recLines[i].xyz[2], recLines[i].xyz[3]>> : i \in HeavyIndices}
HeavyMean ==
    [num |-> [a \in 1..3 |-> SetSum(HeavyTagged, a + 1)], den |-> Cardinality(HeavyIndices)]

\* C12: when the stem of the receptor is a key of BINDING_CENTERS,
\* build_box_for_receptor returns the stored center and size as they are,
\* whatever the receptor file holds, and does not open the receptor file.
C12_RegistryEntryReturnedUnchanged ==
    (WasBuilt /\ InRegistry) =>
        /\ built.status = "ok"
        /\ built.center = outputJson.entries[recStem].center
        /\ built.size = outputJson.entries[recStem].size
        /\ ~built.opened

\* C12 witness: the stored box was returned for a receptor whose heavy atoms
\* have another mean, the size stored not being the automatic one.
C12_Witness ==
    /\ WasBuilt /\ InRegistry /\ recKind = "text"
    /\ HeavyIndices # {}
    /\ HeavyMean # built.center
    /\ built.size # AUTO_BOX_SIZE

\* the stored box was returned by script_run.py for a receptor file that is
\* not there, on which an open() would have raised
RegistrySparesTheOpen ==
    /\ WasBuilt /\ InRegistry /\ recKind = "missing"
    /\ built.script = "script_run"
    /\ built.status = "ok"

\* the mean of the points of the HETATM group of a key
GroupTagged(key) ==
    {<<i, recLines[i].xyz[1], recLines[i].xyz[2], recLines[i].xyz[3]>> :
        i \in {j \in HetAtoms : KeyOf(recLines[j]) = key}}
GroupMean(key) ==
    [num |-> [a \in 1..3 |-> SetSum(GroupTagged(key), a + 1)], den |-> AtomCount(key)]

Cube(edge) == <<edge, edge, edge>>
Origin == [num |-> <<0, 0, 0>>, den |-> 1]
SiteBoxDone == siteBox.status # "none"

HeavyExtent(a) ==
    Highest({recLines[i].xyz[a] : i \in HeavyIndices})
        - Lowest({recLines[i].xyz[a] : i \in HeavyIndices})

WholeReceptorUsed ==
    WasBuilt /\ ~InRegistry /\ recKind = "text" /\ HeavyIndices # {}

\* C14 as written: the whole-receptor box has the mean of the heavy atoms as
\* center and, on each axis, the extent of the heavy atoms plus the padding,
\* raised to 25.
C14_SizeIsPaddedExtentAtLeast25 ==
    WholeReceptorUsed =>
        /\ built.center = HeavyMean
        /\ \A a \in 1..3 :
              built.size[a] = Max2(HeavyExtent(a) + HEAVY_ATOM_BUFFER, FIXED_EDGE)

\* C14: the whole-receptor box has the mean of the heavy atoms as center and
\* the size 25 on every axis, whatever the extent of the heavy atoms: the
\* size the estimator computed is not used.
C14_CenterIsHeavyMeanSizeFixed ==
    WholeReceptorUsed =>
        /\ built.status = "ok"
        /\ built.center = HeavyMean
        /\ \A a \in 1..3 : built.size[a] = FIXED_EDGE

\* C14 witness: the heavy atoms span 29 on the first axis, which with the
\* padding exceeds 25, a hydrogen lies outside them, and the size is 25.
C14_Witness ==
    /\ WholeReceptorUsed
    /\ HeavyExtent(1) + HEAVY_ATOM_BUFFER > FIXED_EDGE
    /\ \E i \in 1..Len(recLines) : recLines[i] = RecHyd
    /\ built.size = Cube(FIXED_EDGE)

\* ----------------------------------------------- a run of script_run.py
\* the items the loop is through with
Through == 1..(runNext - 1)

\* a receptor file that can be read and holds no ATOM or HETATM record of a
\* non-hydrogen atom with coordinates that parse
NoHeavyAtom(file) ==
    /\ file.kind = "text"
    /\ \A i \in 1..Len(file.lines) :
          \/ file.lines[i].rec \notin {"ATOM", "HETATM"}
          \/ StartsWithH(Strip(file.lines[i].name))
          \/ ~file.lines[i].ok

Unregistered(stem) == stem \notin DOMAIN BINDING_CENTERS
CallsFor(stem) == {i \in 1..Len(vinaCalls) : vinaCalls[i].stem = stem}
OutputOf(stem) == {Plain(stem), Versus(stem)} \cap outDir

\* C15: a receptor without registry entry and without any parseable heavy
\* atom raises nothing: the run does not end on it, and unless its pair is
\* skipped for an output that exists, the docking engine is run for it once
\* with the default box, center (0,0,0) and edge 25 on every axis.
C15_NoHeavyAtomDefaultBoxDocked ==
    /\ \A k \in Through :
          (Unregistered(common[k]) /\ NoHeavyAtom(protFiles[common[k]])) =>
              \/ /\ Cardinality(CallsFor(common[k])) = 1
                 /\ \A i \in CallsFor(common[k]) :
                       vinaCalls[i].center = Origin /\ vinaCalls[i].size = Cube(FIXED_EDGE)
              \/ CallsFor(common[k]) = {} /\ OutputOf(common[k]) # {}
    /\ runPc = "aborted" =>
          ~(Unregistered(common[runNext]) /\ NoHeavyAtom(protFiles[common[runNext]]))

\* C15 witness: the engine was run with the default box for the first
\* receptor, which holds a hydrogen and a malformed record only, and the run
\* went on to the end.
C15_Witness ==
    /\ runPc = "done"
    /\ protFiles[common[1]] = FileNoHeavy
    /\ Unregistered(common[1])
    /\ vinaCalls # <<>>
    /\ vinaCalls[1].stem = common[1]
    /\ vinaCalls[1].center = Origin
    /\ vinaCalls[1].size = Cube(FIXED_EDGE)
    /\ Len(vinaCalls) = NumPairs

\* C16: in the main loop of script_run.py no failure on one pair ends the
\* run: the loop never ends on an exception, every pair of the batch is
\* reached, and each pair whose box could not be built or whose docking
\* failed has its line in the stuck log.
C16_FailureNeverAbortsBatch ==
    /\ runPc # "aborted"
    /\ runPc = "done" =>
          /\ runNext = Len(common) + 1
          /\ \A k \in 1..Len(common) :
                (OutputOf(common[k]) = {} /\ common[k] \notin {c.stem : c \in csvOut}) =>
                    \E i \in 1..Len(stuckLog) : stuckLog[i].prefix.stem = common[k]

\* how the run ends on the first pair with the second never reached: on the
\* KeyError of a registry entry without 'center', and on a receptor file that
\* cannot be read
BatchEndedOnKeyError ==
    /\ runPc = "aborted" /\ runNext = 1
    /\ built.status = "KeyError: center"
    /\ vinaCalls = <<>> /\ stuckLog = <<>>
BatchEndedOnUnreadableFile ==
    /\ runPc = "aborted" /\ runNext = 1
    /\ built.status = "OSError"
    /\ protFiles[common[2]] = FileHeavy
    /\ vinaCalls = <<>> /\ stuckLog = <<>>

\* C18: BINDING_CENTERS is loaded before anything is estimated, is empty when
\* Center_boxes.json is absent, and from then on holds what the file held,
\* whatever boxes were built and whatever docking was run.
C18_RegistryLoadedOnceNeverModified ==
    /\ dockPc = "import" => (vinaCalls = <<>> /\ built = NotBuilt /\ runNext = 1)
    /\ dockPc = "ready" =>
          /\ ~outputJson.exists => DOMAIN BINDING_CENTERS = {}
          /\ outputJson.exists => BINDING_CENTERS = outputJson.entries

\* C18 witness: the run is over, every pair was docked, one with the box of
\* the registry, and the registry still holds its one entry.
C18_Witness ==
    /\ runPc = "done"
    /\ Len(vinaCalls) = NumPairs
    /\ \E i \in 1..Len(vinaCalls) :
          /\ vinaCalls[i].stem \in DOMAIN BINDING_CENTERS
          /\ vinaCalls[i].size = EntryA.size
    /\ BINDING_CENTERS = outputJson.entries

\* the run is over, every pair was docked, and the registry is empty for a
\* file that is absent
RanWithoutRegistryFile ==
    /\ runPc = "done"
    /\ Len(vinaCalls) = NumPairs
    /\ ~outputJson.exists
    /\ BINDING_CENTERS = EmptyRegistry

\* ------------------------------------------------------ malformed records
\* a cell of the coordinate column that is an 'x, y, z' of three numbers, bare
\* or within one pair of matching brackets
WellFormedCell(cell) ==
    /\ cell.kind = "str"
    /\ <<cell.open, cell.close>> \in {<<"", "">>, <<"(", ")">>, <<"[", "]">>}
    /\ Len(cell.parts) = 3
    /\ \A i \in 1..Len(cell.parts) : cell.parts[i].ok

\* the contact CSV without its malformed rows, and the receptor without its
\* ATOM and HETATM records whose coordinates do not parse
CleanCsv == [csvFile EXCEPT !.rows = SelectSeq(csvFile.rows, WellFormedCell)]
WellFormedRecord(line) == line.rec \in {"ATOM", "HETATM"} => line.ok
CleanLines == SelectSeq(recLines, WellFormedRecord)

\* C17: a record that does not parse as three numbers is skipped and changes
\* nothing else: process_csv, compute_site_box_from_receptor (through
\* parse_pdbqt_het_groups) and build_box_for_receptor (through
\* estimate_docking_box_from_pdbqt) each return for a list with malformed
\* records what they return for the list with those records removed.
C17_MalformedRecordsChangeNothing ==
    /\ Len(returned) = 1 => returned[1] = process_csv(CleanCsv, forceCube)
    /\ SiteBoxDone =>
          siteBox = compute_site_box_from_receptor(recKind, CleanLines, targetResn, FIXED_EDGE)
    /\ WasBuilt =>
          built = [build_box_for_receptor(BINDING_CENTERS, recStem, recKind, CleanLines,
                                          built.script) EXCEPT !.script = built.script]

\* C17 witness: each of the three returned a box for a list whose first record
\* was malformed and whose second was not.
C17_Witness ==
    /\ Estimated
    /\ Len(csvFile.rows) = 2 /\ ~WellFormedCell(csvFile.rows[1])
    /\ WellFormedCell(csvFile.rows[2])
    /\ siteBox.status = "ok"
    /\ built.status = "ok" /\ built.center # Origin
    /\ recLines = <<RecLigBad, RecLigB>>

\* ---------------------------------------------------- calls under way at once
\* what the call of a worker returns when it runs alone
Alone(w) ==
    build_box_for_receptor(LoadedRegistry(outputJson), WorkerStem(w),
                           protFiles[WorkerStem(w)].kind, protFiles[WorkerStem(w)].lines,
                           "script_run")

\* C19: whatever the interleaving of the build_box_for_receptor calls for
\* different receptors, each call returns the box it returns when it runs
\* alone, and BINDING_CENTERS stays what was loaded.
C19_InterleavedCallsAsAlone ==
    /\ \A w \in Workers : workers[w].at = "returned" => workers[w].box = Alone(w)
    /\ BINDING_CENTERS = LoadedRegistry(outputJson)

\* C19 witness: two calls that found no entry and read their files line by
\* line, in steps taken in any order, have returned boxes around different
\* centers.
C19_Witness ==
    /\ \A w \in Workers : workers[w].at = "returned" /\ workers[w].box.status = "ok"
    /\ protFiles[WorkerStem(1)] = FileHeavy
    /\ protFiles[WorkerStem(2)] = FileTwoAtoms
    /\ BINDING_CENTERS = EmptyRegistry
    /\ workers[1].box.center # workers[2].box.center

\* -------------------------------------------- from one run to the next
\* the PDB stems main produced a box for: those whose contact CSV, under the
\* name of the stem or under the alternate name, holds a usable coordinate
StemsWithBox == {st \in Stems : Usable(CsvOf(st))}

\* C20: what main wrote to Center_boxes.json under a key comes back from
\* build_box_for_receptor, in a later docking run that loaded the file, for
\* the receptor of that stem, with the same center and size; and the keys
\* written are the PDB stems a box was produced for.
C20_WrittenBoxComesBack ==
    /\ pc = "done" =>
          /\ DOMAIN outputJson.entries = StemsWithBox
          /\ \A k \in StemsWithBox : results[k] = process_csv(CsvOf(k), forceCube)
    /\ (WasBuilt /\ recStem \in StemsWithBox) =>
          /\ built.status = "ok"
          /\ built.center = results[recStem].center
          /\ built.size = results[recStem].size

\* C20 witness: the box came back for a stem whose contact CSV was found under
\* the alternate name only, while another PDB stem has no key in the file.
C20_Witness ==
    /\ WasBuilt
    /\ recStem \in StemsWithBox
    /\ csvDir[recStem] = MissingFile
    /\ built.center = results[recStem].center
    /\ built.center # HeavyMean
    /\ StemsWithBox # Stems

\* ------------------------------------------- the engine log and its parsers
\* One token of a log line after split(): whether str.isdigit() holds of it,
\* and what float() makes of it.
Tok(isdigit, fl) == [isdigit |-> isdigit, float |-> fl]

\* "   1   -7.5   0.000": the rank, the affinity and a distance
ModeLine(rank, aff) == <<Tok(TRUE, Num(rank * 10000)), Tok(FALSE, Num(aff)), Tok(FALSE, Num(0))>>
\* "mode |   affinity | dist"
HeaderLine == <<Tok(FALSE, Junk), Tok(FALSE, Junk), Tok(FALSE, Junk)>>
\* "1 kcal": a rank followed by text float() rejects
RankWordLine == <<Tok(TRUE, Num(10000)), Tok(FALSE, Junk)>>
\* "12345": one token, all digits
SeedLine == <<Tok(TRUE, Num(123450000))>>
\* "":  nothing is left by strip()
BlankLine == <<>>

\* a log file: absent, or its lines
NoLog == [exists |-> FALSE, lines |-> <<>>]
LogOf(lines) == [exists |-> TRUE, lines |-> lines]

\* Take gone wrong: the list is returned whole.
TakeAll(s, n) == s

\* aff[:top_n]
Take(s, n) == IF Len(s) <= n THEN s ELSE SubSeq(s, 1, n)

\* if parts and parts[0].isdigit() and len(parts) >= 2: try: float(parts[1])
Matches(parts) == parts # <<>> /\ parts[1].isdigit /\ Len(parts) >= 2 /\ parts[2].float.ok

\* the loop of parse_affinities of autodock_script.py, which breaks out as
\* soon as top_n values are collected
RECURSIVE ParseUntil(_, _, _)
ParseUntil(lines, aff, top_n) ==
    IF lines = <<>> THEN aff
    ELSE LET parts == Head(lines)
         IN IF parts = <<>> THEN ParseUntil(Tail(lines), aff, top_n)
            ELSE LET got == IF Matches(parts) THEN Append(aff, parts[2].float.v) ELSE aff
                 IN IF Len(got) >= top_n THEN got ELSE ParseUntil(Tail(lines), got, top_n)

\* parse_affinities of autodock_script.py
parse_affinities(log, top_n) ==
    IF ~log.exists THEN <<>> ELSE Take(ParseUntil(log.lines, <<>>, top_n), top_n)

\* ------------------------------------------- autodock_script.run_from_csv
\* Number of valid rows of Data.csv at most.
MaxPairs == 2
\* Number of runs of autodock_script.py over the same folders.
MaxRuns == 2

\* one item of pairs: the receptor, the ligand and the residue name asked for
PairItem(prot, lig, resname) == [prot |-> prot, lig |-> lig, lig_resname |-> resname]
\* pair_stem = f"{receptor_stem}__{ligand_stem}"
pair_stem(p) == <<p.prot, p.lig>>

\* the receptors of prot_folder: one with the ligand LIG and a water, one with
\* a water only
ReceptorFile(prot) ==
    IF prot = "R1" THEN RunFile("text", <<RecAtom, RecLigA1, RecLigA2, RecHoh>>)
    ELSE RunFile("text", <<RecAtom, RecHoh>>)

PairItems ==
    {PairItem("R1", "L1", NoTarget), PairItem("R1", "L2", Target("lig")),
     PairItem("R1", "L1", Target("XYZ")), PairItem("R2", "L1", Target("LIG"))}

\* what the engine may leave in the log when it returns
EngineLogTexts ==
    {<<HeaderLine>>, <<HeaderLine, ModeLine(1, -75000), BlankLine, ModeLine(2, -70000)>>}

\* OutCsvExists gone wrong: the test is for the log, not for the CSV.
OutLogExists(dir, name) == \E l \in logFolder : l.name = name

\* os.path.exists(out_csv)
OutCsvExists(dir, name) == \E f \in dir : f.name = name

\* save_affinities_csv gone wrong: nothing is written.
save_nothing(dir, name, affinities) == dir

\* save_affinities_csv(affinities, out_csv)
save_affinities_csv(dir, name, affinities) ==
    {f \in dir : f.name # name} \cup {[name |-> name, holds |-> affinities]}

\* the file log_folder holds under a name
LogAt(dir, name) ==
    IF \E l \in dir : l.name = name
    THEN LogOf((CHOOSE l \in dir : l.name = name).holds) ELSE NoLog

\* Caught gone wrong: the exception is swallowed, nothing is recorded.
CaughtSilently(list, p, reason) == list

\* failed.append((lig_file, prot_file, reason))
Caught(list, p, reason) ==
    Append(list, [lig_file |-> p.lig, prot_file |-> p.prot, reason |-> reason])

BoxIdle == csvFile = MissingFile /\ forceCube = TRUE /\ returned = <<>> /\ second = NoSecond
BuildIdle ==
    /\ BINDING_CENTERS = EmptyRegistry
    /\ dockPc = "idle"
    /\ recStem = NoStem
    /\ recKind = "text"
    /\ built = NotBuilt
    /\ siteBox = NoSiteBox
EarlierIdle ==
    BoxIdle /\ MainIdle /\ SiteIdle /\ BuildIdle /\ RunIdle /\ workers = <<>> /\ acc = <<>>

InitFromCsv ==
    /\ pairs \in SeqsUpTo(PairItems, MaxPairs) \ {<<>>}
    /\ loopPc = "loop"
    /\ pairNext = 1
    /\ runNo = 1
    /\ failed = <<>>
    /\ success = 0
    /\ skipped = 0
    /\ csvFolder = {}
    /\ logFolder = {}
    /\ engineRuns = <<>>
    /\ outcomes = <<>>
    /\ EarlierIdle
    /\ AffIdle /\ ConvIdle /\ CopyIdle

InPairLoop == loopPc = "loop" /\ pairNext <= Len(pairs)
ThePair == pairs[pairNext]

\* compute_site_box_from_receptor(rec_path, lig_resname=lig_resname, fixed_edge=FIXED_EDGE)
SiteBoxFor(p) ==
    compute_site_box_from_receptor(ReceptorFile(p.prot).kind, ReceptorFile(p.prot).lines,
                                   p.lig_resname, FIXED_EDGE)

LeftAs(as) == Append(outcomes, [run |-> runNo, k |-> pairNext, as |-> as])
EngineRun(p, ended) ==
    Append(engineRuns, [run |-> runNo, stem |-> pair_stem(p), center |-> SiteBoxFor(p).center,
                        size |-> SiteBoxFor(p).size, ended |-> ended])
FromCsvFrame ==
    UNCHANGED <<boxVars, mainVars, siteVars, buildVars, runVars, concVars, affVars, convVars, copyVars>>

\* if os.path.exists(out_csv): skipped += 1; continue
SkipPair ==
    /\ InPairLoop
    /\ OutCsvExists(csvFolder, pair_stem(ThePair))
    /\ skipped' = skipped + 1
    /\ outcomes' = LeftAs("skipped")
    /\ pairNext' = pairNext + 1
    /\ UNCHANGED <<pairs, loopPc, runNo, failed, success, csvFolder, logFolder, engineRuns>>
    /\ FromCsvFrame

\* compute_site_box_from_receptor raises: except Exception appends to failed
SiteBoxRaises ==
    /\ InPairLoop
    /\ ~OutCsvExists(csvFolder, pair_stem(ThePair))
    /\ SiteBoxFor(ThePair).status # "ok"
    /\ failed' = Caught(failed, ThePair, SiteBoxFor(ThePair).status)
    /\ outcomes' = LeftAs("failed")
    /\ pairNext' = pairNext + 1
    /\ UNCHANGED <<pairs, loopPc, runNo, success, skipped, csvFolder, logFolder, engineRuns>>
    /\ FromCsvFrame

\* run_vina raises CalledProcessError: the engine ended with a non-zero code
EngineRaises ==
    /\ InPairLoop
    /\ ~OutCsvExists(csvFolder, pair_stem(ThePair))
    /\ SiteBoxFor(ThePair).status = "ok"
    /\ engineRuns' = EngineRun(ThePair, "error")
    /\ failed' = Caught(failed, ThePair, "vina error")
    /\ outcomes' = LeftAs("failed")
    /\ pairNext' = pairNext + 1
    /\ UNCHANGED <<pairs, loopPc, runNo, success, skipped, csvFolder, logFolder>>
    /\ FromCsvFrame

\* run_vina returns, the engine having written the log; parse_affinities reads
\* it, and the CSV is saved when it found affinities
EngineReturns ==
    /\ InPairLoop
    /\ ~OutCsvExists(csvFolder, pair_stem(ThePair))
    /\ SiteBoxFor(ThePair).status = "ok"
    /\ engineRuns' = EngineRun(ThePair, "returned")
    /\ \E text \in EngineLogTexts : logFolder' = WriteLog(logFolder, pair_stem(ThePair), text)
    /\ LET affinities == parse_affinities(LogAt(logFolder', pair_stem(ThePair)), 10)
       IN IF affinities # <<>>
          THEN /\ csvFolder' = save_affinities_csv(csvFolder, pair_stem(ThePair), affinities)
               /\ success' = success + 1
               /\ outcomes' = LeftAs("succeeded")
               /\ UNCHANGED failed
          ELSE /\ failed' = Caught(failed, ThePair, "no affinities in log")
               /\ outcomes' = LeftAs("failed")
               /\ UNCHANGED <<csvFolder, success>>
    /\ pairNext' = pairNext + 1
    /\ UNCHANGED <<pairs, loopPc, runNo, skipped>>
    /\ FromCsvFrame

\* the loop is over: the summary is printed
Summary ==
    /\ loopPc = "loop"
    /\ pairNext > Len(pairs)
    /\ loopPc' = "summary"
    /\ UNCHANGED <<pairs, pairNext, runNo, failed, success, skipped, csvFolder, logFolder,
                   engineRuns, outcomes>>
    /\ FromCsvFrame

\* the script is run again over the same Data.csv and the same folders
RunAgain ==
    /\ loopPc = "summary"
    /\ runNo < MaxRuns
    /\ runNo' = runNo + 1
    /\ loopPc' = "loop"
    /\ pairNext' = 1
    /\ failed' = <<>>
    /\ success' = 0
    /\ skipped' = 0
    /\ UNCHANGED <<pairs, csvFolder, logFolder, engineRuns, outcomes>>
    /\ FromCsvFrame

NextFromCsv == SkipPair \/ SiteBoxRaises \/ EngineRaises \/ EngineReturns \/ Summary \/ RunAgain

SpecFromCsv == InitFromCsv /\ [][NextFromCsv]_vars

\* ------------------------------------------------ runs of run_from_csv
\* the residue name asked for the pair is given and is the name of no HETATM
\* group of the pair's receptor
AbsentResidue(p) ==
    /\ Truthy(p.lig_resname)
    /\ LET grps == parse_pdbqt_het_groups(ReceptorFile(p.prot).lines)
       IN \A g \in 1..Len(grps) : grps[g].key[1] # Upper(Strip(p.lig_resname.text))

\* the loop body is left for the pair at pairNext
BodyLeft == InPairLoop /\ pairNext' = pairNext + 1

\* C21: in run_from_csv, a pair that is not skipped for a CSV that exists and
\* whose requested ligand residue name is the name of no HETATM group of its
\* receptor is appended to failed with the ValueError as reason; the engine is
\* not run for it, no CSV is written, and the loop goes on to the next pair.
C21_AbsentResidueIsPerItemFailure ==
    [][(BodyLeft /\ AbsentResidue(ThePair) /\ ~OutCsvExists(csvFolder, pair_stem(ThePair))) =>
          /\ failed' = Append(failed, [lig_file |-> ThePair.lig, prot_file |-> ThePair.prot,
                                       reason |-> "ValueError: not found"])
          /\ engineRuns' = engineRuns
          /\ csvFolder' = csvFolder
          /\ success' = success
          /\ loopPc' = "loop"]_vars

\* C21 witness: the first pair of a run asked for XYZ, which its receptor does
\* not hold, and is in failed with that reason; the pair after it was docked
\* and its CSV written in the same run.
C21_Witness ==
    /\ runNo = 1
    /\ Len(pairs) = 2
    /\ AbsentResidue(pairs[1])
    /\ loopPc = "summary"
    /\ failed = <<[lig_file |-> pairs[1].lig, prot_file |-> pairs[1].prot,
                   reason |-> "ValueError: not found"]>>
    /\ success = 1
    /\ OutCsvExists(csvFolder, pair_stem(pairs[2]))
    /\ Len(engineRuns) = 1

\* the pairs the loop of this run is through with
PairsDone == IF loopPc = "loop" THEN 1..(pairNext - 1) ELSE 1..Len(pairs)
\* how often the pair at k left the loop body of a run in a given way
LeftCount(run, k, ways) ==
    Cardinality({i \in 1..Len(outcomes) :
                    outcomes[i].run = run /\ outcomes[i].k = k /\ outcomes[i].as \in ways})
Ways == {"succeeded", "skipped", "failed"}
InFailed(p) == \E i \in 1..Len(failed) : failed[i].lig_file = p.lig /\ failed[i].prot_file = p.prot

\* C26: in run_from_csv every valid pair is classified exactly once as
\* succeeded, skipped or failed: success + skipped + len(failed) is the
\* number of pairs the loop is through with, hence the number of valid pairs
\* when the loop has ended; and a pair counts as succeeded only if its CSV is
\* there and holds at least one affinity.
C26_EveryPairClassifiedOnce ==
    /\ loopPc \in {"loop", "summary"} =>
          /\ success + skipped + Len(failed) = Cardinality(PairsDone)
          /\ \A k \in PairsDone : LeftCount(runNo, k, Ways) = 1
          /\ success = Cardinality({k \in PairsDone : LeftCount(runNo, k, {"succeeded"}) = 1})
          /\ skipped = Cardinality({k \in PairsDone : LeftCount(runNo, k, {"skipped"}) = 1})
          /\ Len(failed) = Cardinality({k \in PairsDone : LeftCount(runNo, k, {"failed"}) = 1})
          /\ \A k \in PairsDone : LeftCount(runNo, k, {"failed"}) = 1 => InFailed(pairs[k])
    /\ \A i \in 1..Len(outcomes) :
          outcomes[i].as = "succeeded" =>
              \E f \in csvFolder : f.name = pair_stem(pairs[outcomes[i].k]) /\ f.holds # <<>>

\* C26 witness: the second run of two pairs has ended with one pair skipped,
\* which succeeded in the first run, and one failed; the three numbers add up
\* to two.
C26_Witness ==
    /\ runNo = 2
    /\ loopPc = "summary"
    /\ Len(pairs) = 2
    /\ success = 0 /\ skipped = 1 /\ Len(failed) = 1
    /\ LeftCount(1, 1, {"succeeded"}) = 1
    /\ LeftCount(1, 2, {"failed"}) = 1
    /\ failed[1].reason = "no affinities in log"

\* the affinities CSV of a pair is in csv_folder
HasCsv(stem) == \E f \in csvFolder : f.name = stem
StemAt(k) == pair_stem(pairs[k])
\* a pair of that stem succeeded in some run so far
Succeeded(stem) ==
    \E i \in 1..Len(outcomes) : outcomes[i].as = "succeeded" /\ StemAt(outcomes[i].k) = stem
\* in the run before this one the pair came up and every time it failed
FailedLastRun(stem) ==
    /\ runNo > 1
    /\ \E i \in 1..Len(outcomes) : outcomes[i].run = runNo - 1 /\ StemAt(outcomes[i].k) = stem
    /\ \A i \in 1..Len(outcomes) :
          (outcomes[i].run = runNo - 1 /\ StemAt(outcomes[i].k) = stem) =>
              outcomes[i].as = "failed"
\* the pair has not come up yet in this run
FirstInRun(stem) ==
    \A i \in 1..Len(outcomes) : outcomes[i].run = runNo => StemAt(outcomes[i].k) # stem

\* C27: over repeated runs of run_from_csv a pair is skipped exactly when its
\* affinities CSV exists; a CSV is written only in a step in which the engine
\* returned and at least one affinity was parsed from its log; the engine is
\* never run for a pair that succeeded; and a pair that failed in a run is
\* not skipped when it first comes up in the next run.
C27_SkippedIffCsvExists ==
    [][/\ BodyLeft => ((skipped' = skipped + 1) <=> HasCsv(StemAt(pairNext)))
       /\ csvFolder' # csvFolder =>
             /\ BodyLeft
             /\ Len(engineRuns') = Len(engineRuns) + 1
             /\ engineRuns'[Len(engineRuns')].ended = "returned"
             /\ engineRuns'[Len(engineRuns')].stem = StemAt(pairNext)
             /\ \E f \in csvFolder' :
                   /\ f.name = StemAt(pairNext)
                   /\ f.holds # <<>>
                   /\ f.holds = parse_affinities(LogAt(logFolder', StemAt(pairNext)), 10)
                   /\ csvFolder' = csvFolder \cup {f}
       /\ engineRuns' # engineRuns =>
             /\ BodyLeft
             /\ ~HasCsv(StemAt(pairNext))
             /\ ~Succeeded(StemAt(pairNext))
       /\ (BodyLeft /\ FailedLastRun(StemAt(pairNext)) /\ FirstInRun(StemAt(pairNext))) =>
             /\ skipped' = skipped
             /\ outcomes'[Len(outcomes')].as # "skipped"]_vars

\* C27 witness: in the second run the first pair, which succeeded in the
\* first run, was skipped, and the second pair, for which the engine ended in
\* an error in the first run, was docked again.
C27_Witness ==
    /\ runNo = 2
    /\ loopPc = "summary"
    /\ Len(pairs) = 2
    /\ StemAt(1) # StemAt(2)
    /\ LeftCount(1, 1, {"succeeded"}) = 1
    /\ LeftCount(1, 2, {"failed"}) = 1
    /\ LeftCount(2, 1, {"skipped"}) = 1
    /\ Cardinality({i \in 1..Len(engineRuns) : engineRuns[i].stem = StemAt(1)}) = 1
    /\ Cardinality({i \in 1..Len(engineRuns) : engineRuns[i].stem = StemAt(2)}) = 2
    /\ engineRuns[2].ended = "error"

\* ------------------------------ the estimator on receptors with hydrogens
\* a mercury ion, element symbol in columns 13-14, and a hydrogen under its
\* name of the older PDB files, the digit first
RecMercury == Record("HETATM", "HG  ", " HG", "A", "9", TRUE, <<200000, 0, 0>>)
RecHydDigit == Record("ATOM", "1HB ", "ALA", "A", "6", TRUE, <<0, 200000, 0>>)
HeavyRecords == {RecAtom, RecHyd, RecHydDigit, RecMercury, RecAtomBad}

InitHeavy ==
    /\ recLines \in SeqsUpTo(HeavyRecords, MaxLines)
    /\ targetResn = NoTarget
    /\ groups = <<>>
    /\ picked = NotPicked
    /\ sitePc = "idle"
    /\ BINDING_CENTERS = EmptyRegistry
    /\ dockPc = "import"
    /\ recStem = Stem(1, "")
    /\ recKind = "text"
    /\ built = NotBuilt
    /\ siteBox = NoSiteBox
    /\ BoxIdle
    /\ MainIdle
    /\ RunIdle
    /\ ConcIdle
    /\ ToolIdle

NextHeavy == LoadRegistry \/ BuildBox

SpecHeavy == InitHeavy /\ [][NextHeavy]_vars

\* the records of hydrogen atoms among the records of the model
IsHydrogen(line) == line \in {RecHyd, RecHydDigit}
\* the ATOM and HETATM records of the receptor that are records of atoms other
\* than hydrogen and whose coordinates parse
NonHydrogen ==
    {i \in 1..Len(recLines) :
        recLines[i].rec \in {"ATOM", "HETATM"} /\ ~IsHydrogen(recLines[i]) /\ recLines[i].ok}
NonHydrogenTagged ==
    {<<i, recLines[i].xyz[1], recLines[i].xyz[2], recLines[i].xyz[3]>> : i \in NonHydrogen}

\* C22: the whole-receptor estimator uses exactly the heavy atoms: the center
\* is the mean over every ATOM/HETATM record of a non-hydrogen atom with
\* parseable coordinates, and over no hydrogen record.
C22_CenterOverExactlyTheHeavyAtoms ==
    (WasBuilt /\ ~InRegistry /\ NonHydrogen # {}) =>
        /\ built.status = "ok"
        /\ built.center.den = Cardinality(NonHydrogen)
        /\ \A a \in 1..3 : built.center.num[a] = SetSum(NonHydrogenTagged, a + 1)

\* the estimator left out a mercury atom
MercuryLeftOut ==
    /\ WasBuilt
    /\ recLines = <<RecAtom, RecMercury>>
    /\ built.center = [num |-> <<10000, 10000, 10000>>, den |-> 1]
\* the estimator took in a hydrogen
HydrogenTakenIn ==
    /\ WasBuilt
    /\ recLines = <<RecAtom, RecHydDigit>>
    /\ built.center = [num |-> <<10000, 210000, 10000>>, den |-> 2]

\* ------------------------------------- engine failures in script_run.py
LastCall == vinaCalls[Len(vinaCalls)]
\* in this step run_docking_pair ended on a timeout or a failure of the engine
EngineFailedNow ==
    /\ Len(vinaCalls') = Len(vinaCalls) + 1
    /\ LastCall'.ended \in {"timeout", "error"}

C24_FastSkipMirrorsInnerCheck ==
    \A k \in 1..Len(common) :
        (LoopOutFile(common[k]) \in outDir) <=> (PairPrefix(common[k]) \in outDir)

\* the first pair was docked in this run and its output written, and the test
\* of the main loop still finds nothing for it
DockedButNotFastSkipped ==
    /\ vinaCalls # <<>>
    /\ vinaCalls[1].stem = common[1] /\ vinaCalls[1].ended = "returned"
    /\ PairPrefix(common[1]) \in outDir
    /\ LoopOutFile(common[1]) \notin outDir

\* the engine runs of this run that ended in a given way
EndedAs(how) == {i \in 1..Len(vinaCalls) : vinaCalls[i].ended = how}

\* C25: at the end of a run of script_run.py the counters printed are those
\* of the run: Processed is the number of pairs whose CSV was newly written,
\* Timeouts the number of pairs whose docking timed out, Errors the number of
\* pairs whose docking failed.
C25_CountersAreThoseOfTheRun ==
    runPc = "done" =>
        /\ counters.processed = Cardinality(csvOut)
        /\ counters.timeouts = Cardinality(EndedAs("timeout"))
        /\ counters.errors = Cardinality(EndedAs("error"))

\* a run has ended in which one docking timed out, one failed or one CSV was
\* written, and the three counters are zero
AllZeroAfterTimeout ==
    /\ runPc = "done"
    /\ EndedAs("timeout") # {}
    /\ counters = [processed |-> 0, errors |-> 0, timeouts |-> 0]
AllZeroAfterCsv ==
    /\ runPc = "done"
    /\ Cardinality(csvOut) = NumPairs
    /\ counters = [processed |-> 0, errors |-> 0, timeouts |-> 0]
\* the counters are zero in every state
CountersStayZero == counters = [processed |-> 0, errors |-> 0, timeouts |-> 0]

\* -------------------------------- parse_affinities of the four scripts
\* Longest engine log handed to the parsers, in lines.
MaxLogLines == 11
\* Number of lines of such a log, at most, that are no lines of the table of
\* modes.
MaxOther == 1

\* the default top_n=10 of autodock_script.parse_affinities
TOP_N == 10

\* the scripts that define parse_affinities, in the order they are tried here
Parsers == <<"autodock_script", "script_run", "random_run_script", "Test">>

\* the test on the tokens of a line, as each of the other three scripts nests it
MatchesIn(script, parts) ==
    CASE script = "script_run" -> Len(parts) >= 2 /\ parts[1].isdigit /\ parts[2].float.ok
      [] script = "random_run_script" ->
            parts # <<>> /\ parts[1].isdigit /\ Len(parts) >= 2 /\ parts[2].float.ok
      [] OTHER -> parts[1].isdigit /\ Len(parts) >= 2 /\ parts[2].float.ok

\* the loop of parse_affinities of script_run.py, random_run_script.py and
\* Test.py, which reads the log to its end; the first and the last skip a
\* line of which strip() leaves nothing
RECURSIVE ParseAll(_, _, _)
ParseAll(lines, aff, script) ==
    IF lines = <<>> THEN aff
    ELSE LET parts == Head(lines)
         IN IF script # "random_run_script" /\ parts = <<>>
            THEN ParseAll(Tail(lines), aff, script)
            ELSE ParseAll(Tail(lines),
                          IF MatchesIn(script, parts) THEN Append(aff, parts[2].float.v) ELSE aff,
                          script)

\* parse_affinities(log_path) of a script
parse_affinities_of(script, log) ==
    IF script = "autodock_script" THEN parse_affinities(log, TOP_N)
    ELSE IF ~log.exists THEN <<>>
    ELSE Take(ParseAll(log.lines, <<>>, script), 10)

\* the lines of the log that are not of the table of modes
OtherLines == {HeaderLine, RankWordLine, SeedLine, BlankLine}
\* which lines of a log of n lines are such lines
OthersFor(n) ==
    UNION {[D -> OtherLines] : D \in {S \in SUBSET (1..n) : Cardinality(S) <= MaxOther}}
\* a log of n lines: line i is the line of mode i, with an affinity of its own,
\* unless it is one of the other lines
LogLines(n, others) ==
    [i \in 1..n |-> IF i \in DOMAIN others THEN others[i] ELSE ModeLine(i, -(1000 * i))]
AffinityLogs ==
    {NoLog} \cup UNION {{LogOf(LogLines(n, o)) : o \in OthersFor(n)} : n \in 0..MaxLogLines}

InitAff ==
    /\ logFile \in AffinityLogs
    /\ parsed = <<>>
    /\ parseTurn = 1
    /\ EarlierIdle
    /\ FromCsvIdle /\ ConvIdle /\ CopyIdle

AffFrame ==
    UNCHANGED <<boxVars, mainVars, siteVars, buildVars, runVars, concVars, fromCsvVars,
                convVars, copyVars, logFile>>

\* affinities = parse_affinities(out_log, top_n=10) of autodock_script.py
ParseUntilTopN ==
    /\ parseTurn = 1
    /\ parsed' = Append(parsed, parse_affinities_of(Parsers[parseTurn], logFile))
    /\ parseTurn' = parseTurn + 1
    /\ AffFrame

\* affinities = parse_affinities(log_path) of each of the other scripts
ParseToTheEnd ==
    /\ parseTurn \in 2..Len(Parsers)
    /\ parsed' = Append(parsed, parse_affinities_of(Parsers[parseTurn], logFile))
    /\ parseTurn' = parseTurn + 1
    /\ AffFrame

NextAff == ParseUntilTopN \/ ParseToTheEnd

SpecAff == InitAff /\ [][NextAff]_vars

\* the lines of the log whose first token is all digits and whose second
\* token parses as a number
ModeLines ==
    {i \in 1..Len(logFile.lines) :
        /\ Len(logFile.lines[i]) >= 2
        /\ logFile.lines[i][1].isdigit
        /\ logFile.lines[i][2].float.ok}
\* the j-th of them in log order
NthMode(j) == CHOOSE i \in ModeLines : Cardinality({m \in ModeLines : m < i}) = j - 1
FirstTen ==
    IF ~logFile.exists THEN <<>>
    ELSE [j \in 1..(IF Cardinality(ModeLines) < 10 THEN Cardinality(ModeLines) ELSE 10) |->
             logFile.lines[NthMode(j)][2].float.v]

\* C28: parse_affinities returns, in log order, the second token of the first
\* ten (at most) log lines whose first token is all digits and whose second
\* token parses as a number; the empty list when the log does not exist;
\* never more than ten values; and the variant that leaves the loop early
\* returns what the variants that read the whole log return.
C28_FirstTenAffinitiesInLogOrder ==
    \A t \in 1..Len(parsed) :
        /\ parsed[t] = FirstTen
        /\ Len(parsed[t]) <= 10
        /\ ~logFile.exists => parsed[t] = <<>>
        /\ parsed[t] = parsed[1]

\* C28 witness: a log of eleven lines, all of them lines of the table, has
\* been parsed by the four scripts, and each returned the first ten affinities.
C28_Witness ==
    /\ Len(parsed) = 4
    /\ Len(logFile.lines) = 11
    /\ Cardinality(ModeLines) = 11
    /\ \A t \in 1..4 : Len(parsed[t]) = 10 /\ parsed[t][10] = -10000

\* ------------------------------------------------------ convert_proteins.py
\* Number of entries of input_folder at most.
NumInputs == 2

\* max_lines=200 of the call of validate_pdbqt_coords
VALIDATE_MAX_LINES == 200

\* the entries of input_folder
InputNames == {"a.pdb", "b.PDB", "notes.txt"}
\* filename.lower().endswith(".pdb")
IsPdb(filename) == filename \in {"a.pdb", "b.PDB"}
\* pdb_in.stem, the name of the final '<stem>.pdbqt'
StemOf(filename) == CASE filename = "a.pdb" -> "a" [] filename = "b.PDB" -> "b" [] OTHER -> filename

\* One line of a PDBQT a converter wrote: the record name, whether the three
\* coordinate columns parse, and whether the regular expression of
\* _fix_atom_line_columns finds three numbers in the line.
ConvLine(rec, ok, triple) == [rec |-> rec, ok |-> ok, triple |-> triple]
GoodAtom == ConvLine("ATOM", TRUE, TRUE)
ShiftedAtom == ConvLine("HETATM", FALSE, TRUE)
BrokenAtom == ConvLine("ATOM", FALSE, FALSE)
RemarkLine == ConvLine("REMARK", FALSE, FALSE)
ConvertedTexts == {<<GoodAtom>>, <<RemarkLine, ShiftedAtom>>, <<GoodAtom, BrokenAtom>>}
OldText == <<RemarkLine>>

\* _fix_atom_line_columns: columns that do not parse are rewritten from the
\* last three numbers found in the line, if any
FixAtomLine(line) ==
    IF line.rec \notin {"ATOM", "HETATM"} THEN line
    ELSE IF line.ok THEN line
    ELSE IF line.triple THEN [line EXCEPT !.ok = TRUE]
    ELSE line

\* sanitize_and_reflow(tmp_out, clean_out): what clean_out holds
sanitize_and_reflow(text) == [i \in 1..Len(text) |-> FixAtomLine(text[i])]

\* validate_pdbqt_coords(path, max_lines): the numbers of the malformed lines
\* among the first max_lines ATOM/HETATM lines
RECURSIVE BadFrom(_, _, _, _)
BadFrom(text, i, seen, max_lines) ==
    IF i > Len(text) THEN <<>>
    ELSE IF text[i].rec \notin {"ATOM", "HETATM"} THEN BadFrom(text, i + 1, seen, max_lines)
    ELSE LET here == IF text[i].ok THEN <<>> ELSE <<i>>
         IN IF seen + 1 >= max_lines THEN here
            ELSE here \o BadFrom(text, i + 1, seen + 1, max_lines)
validate_pdbqt_coords(text, max_lines) == BadFrom(text, 1, 0, max_lines)

\* one run of a converter, or of the validation, for an input
ToolRun(input, tool, ended) == [input |-> input, tool |-> tool, ended |-> ended]

\* Open Babel after ADT: run() returns the exit code of obabel, or
\* subprocess.run raises FileNotFoundError when there is no obabel to start
ObabelEnds == IF obabelThere THEN {"ok", "failed"} ELSE {"not found"}

\* if not ok: Open Babel is tried
ObabelNeeded(adt) == adt # "ok"

\* the converter runs an input may go through: ADT when has_adt(), then Open
\* Babel if ADT was not run or did not end with code 0
ConverterRuns(input) ==
    LET AdtEnds == IF hasAdt THEN {"ok", "failed"} ELSE {"none"}
        After(adt) == IF adt = "none" THEN <<>> ELSE <<ToolRun(input, "adt", adt)>>
    IN UNION {IF ObabelNeeded(adt)
              THEN {After(adt) \o <<ToolRun(input, "obabel", ob)>> : ob \in ObabelEnds}
              ELSE {After(adt)} : adt \in AdtEnds}

\* pdbqt_out.unlink(); clean_out.rename(pdbqt_out)
Renamed(dir, stem, text) == {f \in dir : f.name # stem} \cup {[name |-> stem, holds |-> text]}

\* the orders os.listdir may give for up to NumInputs entries, each once
InputLists ==
    {l \in SeqsUpTo(InputNames, NumInputs) : \A i, j \in 1..Len(l) : i # j => l[i] # l[j]}

InitConv ==
    /\ hasAdt \in BOOLEAN
    /\ obabelThere \in BOOLEAN
    /\ inputs \in InputLists
    /\ convPc = "loop"
    /\ convNext = 1
    /\ finalFiles \in {{}, {[name |-> "a", holds |-> OldText]}}
    /\ failedNames = <<>>
    /\ toolRuns = <<>>
    /\ EarlierIdle
    /\ FromCsvIdle /\ AffIdle /\ CopyIdle

ConvFrame ==
    UNCHANGED <<boxVars, mainVars, siteVars, buildVars, runVars, concVars, fromCsvVars,
                affVars, copyVars, hasAdt, obabelThere, inputs>>

InConvLoop == convPc = "loop" /\ convNext <= Len(inputs)
TheInput == inputs[convNext]
Last(s) == s[Len(s)]

\* if not filename.lower().endswith(".pdb"): continue
SkipOtherFile ==
    /\ InConvLoop
    /\ ~IsPdb(TheInput)
    /\ convNext' = convNext + 1
    /\ UNCHANGED <<convPc, finalFiles, failedNames, toolRuns>>
    /\ ConvFrame

\* no converter ended with code 0: failed.append(pdb_in.name); continue
ConvertersFail ==
    /\ InConvLoop
    /\ IsPdb(TheInput)
    /\ \E runs \in ConverterRuns(TheInput) :
          /\ Last(runs).ended = "failed"
          /\ toolRuns' = toolRuns \o runs
    /\ failedNames' = Append(failedNames, TheInput)
    /\ convNext' = convNext + 1
    /\ UNCHANGED <<convPc, finalFiles>>
    /\ ConvFrame

\* Open Babel is to be tried and cannot be started: the FileNotFoundError of
\* subprocess.run is caught nowhere and ends the script
ObabelNotFound ==
    /\ InConvLoop
    /\ IsPdb(TheInput)
    /\ \E runs \in ConverterRuns(TheInput) :
          /\ Last(runs).ended = "not found"
          /\ toolRuns' = toolRuns \o runs
    /\ convPc' = "crashed"
    /\ UNCHANGED <<convNext, finalFiles, failedNames>>
    /\ ConvFrame

\* a converter ended with code 0, the validation of the sanitized file found
\* malformed lines: failed.append(pdb_in.name); continue
ValidationFails ==
    /\ InConvLoop
    /\ IsPdb(TheInput)
    /\ \E runs \in ConverterRuns(TheInput), text \in ConvertedTexts :
          /\ Last(runs).ended = "ok"
          /\ validate_pdbqt_coords(sanitize_and_reflow(text), VALIDATE_MAX_LINES) # <<>>
          /\ toolRuns' = toolRuns \o runs \o <<ToolRun(TheInput, "validate", "bad lines")>>
    /\ failedNames' = Append(failedNames, TheInput)
    /\ convNext' = convNext + 1
    /\ UNCHANGED <<convPc, finalFiles>>
    /\ ConvFrame

\* a converter ended with code 0 and the validation found nothing: the final
\* file is removed if there and the sanitized file renamed to it; an exception
\* on the way, before or after the removal, puts the name in failed
Finalize ==
    /\ InConvLoop
    /\ IsPdb(TheInput)
    /\ \E runs \in ConverterRuns(TheInput), text \in ConvertedTexts :
          /\ Last(runs).ended = "ok"
          /\ validate_pdbqt_coords(sanitize_and_reflow(text), VALIDATE_MAX_LINES) = <<>>
          /\ toolRuns' = toolRuns \o runs \o <<ToolRun(TheInput, "validate", "ok")>>
          /\ \/ /\ finalFiles' = Renamed(finalFiles, StemOf(TheInput), sanitize_and_reflow(text))
                /\ UNCHANGED failedNames
             \/ /\ finalFiles' \in {finalFiles, {f \in finalFiles : f.name # StemOf(TheInput)}}
                /\ failedNames' = Append(failedNames, TheInput)
    /\ convNext' = convNext + 1
    /\ UNCHANGED convPc
    /\ ConvFrame

\* the loop is over: the report
Report ==
    /\ convPc = "loop"
    /\ convNext > Len(inputs)
    /\ convPc' = "done"
    /\ UNCHANGED <<convNext, finalFiles, failedNames, toolRuns>>
    /\ ConvFrame

NextConv ==
    SkipOtherFile \/ ConvertersFail \/ ObabelNotFound \/ ValidationFails \/ Finalize \/ Report

SpecConv == InitConv /\ [][NextConv]_vars

\* an input was handled in this step
InputHandled ==
    InConvLoop /\ IsPdb(TheInput) /\ (convNext' = convNext + 1 \/ convPc' = "crashed")
\* the runs of this step
NewRuns == SubSeq(toolRuns', Len(toolRuns) + 1, Len(toolRuns'))
ConverterSucceeded ==
    \E i \in 1..Len(NewRuns) : NewRuns[i].tool \in {"adt", "obabel"} /\ NewRuns[i].ended = "ok"
ValidationFound(what) ==
    \E i \in 1..Len(NewRuns) : NewRuns[i].tool = "validate" /\ NewRuns[i].ended = what
Times(name, list) == Cardinality({i \in 1..Len(list) : list[i] = name})

\* what the claim says of the step in which an input is handled
ConversionStepAsClaimed ==
    /\ finalFiles' # finalFiles => (ConverterSucceeded /\ ValidationFound("ok"))
    /\ (~ConverterSucceeded \/ ValidationFound("bad lines")) =>
          /\ finalFiles' = finalFiles
          /\ failedNames' = Append(failedNames, TheInput)
          /\ Times(TheInput, failedNames') = 1
    /\ \A i \in 1..Len(NewRuns) :
          NewRuns[i].tool = "obabel" =>
              \/ ~hasAdt
              \/ i > 1 /\ NewRuns[i - 1].tool = "adt" /\ NewRuns[i - 1].ended = "failed"

\* C29: in convert_proteins.py the final .pdbqt of an input is replaced only
\* after a converter succeeded and the validation of the sanitized file found
\* no malformed coordinate line; when both converters fail or the validation
\* fails, the final .pdbqt is left as it was and the input's name is recorded
\* in failed exactly once; Open Babel is run only if ADT is not there or
\* ended with a non-zero code.
C29_FinalReplacedOnlyAfterValidation ==
    [][InputHandled => ConversionStepAsClaimed]_vars

\* the same for the inputs whose handling does not end the script
ClaimedWhereObabelStarts ==
    [][(InputHandled /\ convPc' # "crashed") => ConversionStepAsClaimed]_vars

\* ADT ended with a non-zero code for the first input, there is no obabel to
\* start: the script has ended on the exception, failed is empty and the
\* second input was not reached
CrashedOnFirstInput ==
    /\ convPc = "crashed"
    /\ convNext = 1
    /\ Len(inputs) = 2 /\ IsPdb(inputs[2])
    /\ failedNames = <<>>
    /\ Len(toolRuns) = 2
    /\ toolRuns[1].ended = "failed" /\ toolRuns[2].ended = "not found"

\* ---------------------------------------------------------------------------
\* cleanupprocess.py: safe_copy and the calls main makes of it
\* ---------------------------------------------------------------------------

\* the number of safe_copy calls of a run of main
MaxCopies == 3

\* a file name: the stem as "x" followed by the numbers joined to it with "_"
\* (<<"x", 1>> is "x_1"), and the suffix
FileName(stem, suffix) == [stem |-> stem, suffix |-> suffix]
File(name, holds) == [name |-> name, holds |-> holds]

\* files of the three source folders that match a target; two folders hold a
\* file of the same name
SourceFiles ==
    {File(FileName(<<"x">>, ".pdbqt"), "A"), File(FileName(<<"x">>, ".pdbqt"), "B"),
     File(FileName(<<"x", 1>>, ".pdbqt"), "C"), File(FileName(<<"x">>, ".log"), "D")}

\* what the output folder may hold before the run
OldFiles ==
    {File(FileName(<<"x">>, ".pdbqt"), "old"), File(FileName(<<"x", 1>>, ".pdbqt"), "old 1"),
     File(FileName(<<"x", 2>>, ".pdbqt"), "old 2")}

NoSrc == File(FileName(<<>>, ""), "")

\* DstExists gone wrong: no name is ever seen as taken.
DstExistsNever(dir, name) == FALSE

\* dst.exists(), candidate.exists()
DstExists(dir, name) == \E f \in dir : f.name = name

\* shutil.copy2(src, dst): dst holds what src holds, whatever it held before
shutil_copy2(dir, src, name) == {f \in dir : f.name # name} \cup {File(name, src.holds)}

\* dst_dir / f"{stem}_{i}{suffix}"
candidate(dst, i) == FileName(Append(dst.stem, i), dst.suffix)

\* what a call has returned: the source and the name of the copy
Copy(src, name) == [src |-> src, name |-> name]

InitCopy ==
    /\ destDir \in SUBSET OldFiles
    /\ copyPc = "idle"
    /\ copySrc = NoSrc
    /\ copyI = 0
    /\ copies = <<>>
    /\ EarlierIdle
    /\ FromCsvIdle /\ AffIdle /\ ConvIdle

CopyFrame ==
    UNCHANGED <<boxVars, mainVars, siteVars, buildVars, runVars, concVars, fromCsvVars,
                affVars, convVars>>

\* safe_copy(f, out_dir), dst not there: copy to dst, return dst
SafeCopyToName(src) ==
    /\ copyPc = "idle"
    /\ Len(copies) < MaxCopies
    /\ ~DstExists(destDir, src.name)
    /\ destDir' = shutil_copy2(destDir, src, src.name)
    /\ copies' = Append(copies, Copy(src, src.name))
    /\ UNCHANGED <<copyPc, copySrc, copyI>>
    /\ CopyFrame

\* safe_copy(f, out_dir), dst there: i = 1
SafeCopyNameTaken(src) ==
    /\ copyPc = "idle"
    /\ Len(copies) < MaxCopies
    /\ DstExists(destDir, src.name)
    /\ copyPc' = "probing"
    /\ copySrc' = src
    /\ copyI' = 1
    /\ UNCHANGED <<destDir, copies>>
    /\ CopyFrame

\* while True: the candidate is there, i += 1
CandidateTaken ==
    /\ copyPc = "probing"
    /\ DstExists(destDir, candidate(copySrc.name, copyI))
    /\ copyI' = copyI + 1
    /\ UNCHANGED <<destDir, copyPc, copySrc, copies>>
    /\ CopyFrame

\* while True: the candidate is not there, copy to it and return it
CandidateFree ==
    /\ copyPc = "probing"
    /\ ~DstExists(destDir, candidate(copySrc.name, copyI))
    /\ destDir' = shutil_copy2(destDir, copySrc, candidate(copySrc.name, copyI))
    /\ copies' = Append(copies, Copy(copySrc, candidate(copySrc.name, copyI)))
    /\ copyPc' = "idle"
    /\ copySrc' = NoSrc
    /\ copyI' = 0
    /\ CopyFrame

NextCopy ==
    \/ \E src \in SourceFiles : SafeCopyToName(src)
    \/ \E src \in SourceFiles : SafeCopyNameTaken(src)
    \/ CandidateTaken
    \/ CandidateFree

\* a call that has begun goes on: the loop of safe_copy is not left waiting
SpecCopy == InitCopy /\ [][NextCopy]_vars /\ WF_vars(CandidateTaken \/ CandidateFree)

Present(name) == \E f \in destDir : f.name = name
\* the name the claim gives a copy of a file called name
NameAsClaimed(name) ==
    IF ~Present(name) THEN name
    ELSE LET i == CHOOSE k \in 1..(Cardinality(destDir) + 1) :
                      /\ ~Present(candidate(name, k))
                      /\ \A j \in 1..(k - 1) : Present(candidate(name, j))
         IN candidate(name, i)
Returned == Len(copies') = Len(copies) + 1
\* every file of the folder is there after the step, holding what it held
NothingTouched == \A f \in destDir : f \in destDir'
\* the call that returns in this step has made its copy under the claimed name
CopiedAsClaimed ==
    Returned =>
        LET c == copies'[Len(copies')]
        IN /\ c.name = NameAsClaimed(c.src.name)
           /\ File(c.name, c.src.holds) \in destDir'
           /\ destDir' = destDir \cup {File(c.name, c.src.holds)}
\* every copy made so far is in the folder under the name it was given
CopiesKept ==
    \A k \in 1..Len(copies) : File(copies[k].name, copies[k].src.holds) \in destDir

\* C30: safe_copy never overwrites or changes a file of the destination
\* folder: the copy goes to '<name>' if that is not there, else to
\* '<stem>_<i><suffix>' for the smallest i >= 1 that is not there; every call
\* returns; after any sequence of calls every earlier copy is still in the
\* folder under the name it was given.
C30_SafeCopyNeverOverwrites ==
    /\ [][NothingTouched /\ CopiedAsClaimed]_vars
    /\ [](CopiesKept)
    /\ (copyPc = "probing") ~> (copyPc = "idle")

\* the folder held x.pdbqt and x_1.pdbqt; x.pdbqt was copied twice, from two
\* folders, and went to x_2.pdbqt and x_3.pdbqt, the old files are as they were
C30_Witness ==
    /\ Len(copies) = 2
    /\ copies[1].src.holds = "A" /\ copies[1].name = FileName(<<"x", 2>>, ".pdbqt")
    /\ copies[2].src.holds = "B" /\ copies[2].name = FileName(<<"x", 3>>, ".pdbqt")
    /\ File(FileName(<<"x">>, ".pdbqt"), "old") \in destDir
    /\ File(FileName(<<"x", 1>>, ".pdbqt"), "old 1") \in destDir
    /\ Cardinality(destDir) = 4
    /\ copyPc = "idle"

====
